---- MODULE Spec2Model ----
(***************************************************************************)
(* Verification model of the internxt backup engine (webdav-backup).       *)
(*                                                                         *)
(* The functional modules are modelled: file-upload-manager.ts (the        *)
(* transfer queue), uploader.ts (handleFileUpload / startUpload),          *)
(* progress-tracker.ts, file-scanner.ts, hash-cache.ts,                    *)
(* resumable-uploader.ts and file-sync.ts (syncFiles).                     *)
(*                                                                         *)
(* JavaScript runs one callback at a time; an action of this model is one  *)
(* run-to-completion segment of code between two suspension points (the    *)
(* completion of an I/O operation, a timer).  An await on a promise that   *)
(* is already settled resumes in the same microtask checkpoint, before any *)
(* timer or I/O completion, and is part of the segment.  Strings that the  *)
(* code takes apart (paths) are sequences of one-character strings.        *)
(*                                                                         *)
(* The synchronous code is written as functions of a record s that holds   *)
(* the module variables; an action commits the record the code leaves.     *)
(***************************************************************************)
EXTENDS Integers, Sequences, FiniteSets, TLC

(***************************************************************************)
(* Bounds of the model.                                                    *)
(***************************************************************************)
MaxConcurrencyBound == 2
MaxBatch == 3
MaxApiCalls == 3
MaxApiBatch == 2
MaxCompleteCalls == 3
MaxUploadBatch == 2
MaxContent == 2
MaxRuns == 2
MaxEdits == 1

VARIABLES
  \* ---- file-upload-manager.ts ----
  pendingFiles,        \* _pendingFiles: sequence of FileInfo
  activeUploads,       \* _activeUploads: set of upload ids
  handler,             \* _handler: "null", "mock" or "handleFileUpload"
  maxConcurrency,      \* _maxConcurrency
  completionCallback,  \* _completionCallback: "null", "mock" or "resolve"
  checkInterval,       \* _checkInterval: TRUE while it holds the handle of a 500 ms timer
  leakedTimers,        \* timers still registered whose handle _checkInterval no longer holds
  handlers,            \* upload id -> the handler invocation (promise) in flight
  nextUploadId,        \* source of fresh upload ids
  \* ---- uploader.ts ----
  targetDir,           \* _targetDir
  useResume,           \* _useResume
  uploadedFiles,       \* _uploadedFiles: set of relative paths
  createdDirectories,  \* _createdDirectories: set of remote directory paths
  \* ---- progress-tracker.ts ----
  totalFiles,          \* _totalFiles
  completedFiles,      \* _completedFiles
  failedFiles,         \* _failedFiles
  progressDisplay,     \* _updateInterval set, _isTrackingActive, console methods overridden
  \* ---- file-scanner.ts ----
  forceUpload,         \* _forceUpload
  uploadState,         \* _uploadState: [files, lastRun]
  \* ---- hash-cache.ts ----
  cache,               \* _cache: path -> digest
  cacheLoads,          \* loadHashCache() calls in flight that nobody awaits
  \* ---- resumable-uploader.ts ----
  largeTasks,          \* uploadLargeFile calls in flight: key -> local variables
  resumeCall,          \* the call of canResumeUpload in flight, or the last one returned
  \* ---- restore-manager.ts ----
  restore,             \* the module's variables and the call of restoreFiles in progress
  \* ---- files on disk and on the drive ----
  fileContent,         \* source tree: relative path -> content
  stateFile,           \* internxt-backup-state.json
  cacheFile,           \* internxt-backup-hash-cache.json
  resumeStates,        \* resume directory: local path -> ChunkedUploadState
  remote,              \* the drive: relative path -> content uploaded, 0 if none
  foldersCreated,      \* remote directories a create-folder of the current run has made
  \* ---- the backup run (syncFiles / startUpload) in progress ----
  runPc,               \* where the run is suspended
  runEntry,            \* "syncFiles" or "startUpload": the function that was called
  allFiles,            \* scanDirectory's result so far
  filesToUpload,       \* the list given to startUpload
  scanIndex,           \* position of the scanning loops
  preCreateDirs,       \* directories startUpload has still to pre-create
  runOptions,          \* the options syncFiles was called with
  \* ---- history, for the properties ----
  batch,               \* the list last given to setFileQueue
  started,             \* startFileQueue has been called
  apiCalls,            \* number of calls made to the exported functions
  dispatchLog,         \* files in the order they were passed to _handler
  settledCount,        \* number of handler invocations whose then/catch ran
  completeCalls,       \* number of invocations of the completion callback
  errorLog,            \* number of logger.error calls made by the queue
  cancelInfo,          \* cancelFileQueue calls: how many, whether one was made since
                       \* the last setFileQueue, and startFileQueue called since
  runs,                \* number of runs started
  runForced,           \* the force option of the current (or last) run
  runExit,             \* how the last run ended, "none" while none has ended
  recordCalls,         \* recordScannerCompletion calls made by the current run
  saveCalls,           \* saveScannerState calls made by the current run
  runOk,               \* per run that returned: it ended normally with no failed upload
  treeAtRun,           \* per run: the content of the source tree when the run began
  edits,               \* number of edits made to the source tree
  mkdirCalls,          \* create-folder invocations issued by the current run
  uploadCalls,         \* upload-file invocations issued by the current run
  syncCliStatus,       \* what checkInternxtCLI answered to syncFiles in the current run
  \* ---- scheduler.ts ----
  jobs,                \* _jobs: the ids of the registered Cron jobs
  cronJobs,            \* the Cron objects made by the daemons: id -> [stopped, busy]
  daemons,             \* calls of startBackupDaemon / startDaemon: id -> local state
  backups,             \* runBackupOnce calls in flight: [daemon, origin, n]
  signalHandlers,      \* the shutdown handlers registered for SIGINT and SIGTERM, in order
  keepAliveTimers,     \* the 60 s timers set by keepDaemonAlive
  processExited,       \* "no", or who has ended the process
  firings,             \* number of cron firings so far
  \* ---- calls made directly to a module ----
  hashCall,            \* the call of the hash cache in flight, or the last one returned
  scanCall,            \* the call of scanDirectory: the directory it is given, its answer
  cliCall              \* the call of an operation of internxt-service.ts: what the CLI
                       \* process gives, the operation called, its result

vars == <<pendingFiles, activeUploads, handler, maxConcurrency, completionCallback,
          checkInterval, leakedTimers, handlers, nextUploadId,
          targetDir, useResume, uploadedFiles, createdDirectories,
          totalFiles, completedFiles, failedFiles, progressDisplay,
          forceUpload, uploadState, cache, cacheLoads, largeTasks,
          fileContent, stateFile, cacheFile, resumeStates, remote,
          runPc, runEntry, allFiles, filesToUpload, scanIndex, preCreateDirs, runOptions,
          batch, started, apiCalls, dispatchLog, settledCount, completeCalls,
          errorLog, runs, runForced, runExit, recordCalls, saveCalls,
          runOk, treeAtRun, edits, foldersCreated, mkdirCalls, uploadCalls,
          syncCliStatus,
          jobs, cronJobs, daemons, backups, signalHandlers, keepAliveTimers,
          processExited, firings, hashCall,
          scanCall, cancelInfo, cliCall, resumeCall, restore>>

\* The program state as one record, and its commitment to the variables.
St ==
  [pendingFiles |-> pendingFiles, activeUploads |-> activeUploads,
   handler |-> handler, maxConcurrency |-> maxConcurrency,
   completionCallback |-> completionCallback, checkInterval |-> checkInterval,
   leakedTimers |-> leakedTimers, handlers |-> handlers,
   nextUploadId |-> nextUploadId,
   targetDir |-> targetDir, useResume |-> useResume,
   uploadedFiles |-> uploadedFiles, createdDirectories |-> createdDirectories,
   totalFiles |-> totalFiles, completedFiles |-> completedFiles,
   failedFiles |-> failedFiles, progressDisplay |-> progressDisplay,
   forceUpload |-> forceUpload, uploadState |-> uploadState,
   cache |-> cache, cacheLoads |-> cacheLoads, largeTasks |-> largeTasks,
   fileContent |-> fileContent, stateFile |-> stateFile, cacheFile |-> cacheFile,
   resumeStates |-> resumeStates, remote |-> remote,
   runPc |-> runPc, runEntry |-> runEntry, allFiles |-> allFiles,
   filesToUpload |-> filesToUpload, scanIndex |-> scanIndex,
   preCreateDirs |-> preCreateDirs, runOptions |-> runOptions,
   batch |-> batch, started |-> started, apiCalls |-> apiCalls,
   dispatchLog |-> dispatchLog, settledCount |-> settledCount,
   completeCalls |-> completeCalls, errorLog |-> errorLog,
   runs |-> runs, runForced |-> runForced, runExit |-> runExit,
   recordCalls |-> recordCalls, saveCalls |-> saveCalls,
   runOk |-> runOk, treeAtRun |-> treeAtRun, edits |-> edits,
   foldersCreated |-> foldersCreated, mkdirCalls |-> mkdirCalls,
   uploadCalls |-> uploadCalls, syncCliStatus |-> syncCliStatus,
   jobs |-> jobs, cronJobs |-> cronJobs, daemons |-> daemons, backups |-> backups,
   signalHandlers |-> signalHandlers, keepAliveTimers |-> keepAliveTimers,
   processExited |-> processExited, firings |-> firings, hashCall |-> hashCall,
   scanCall |-> scanCall, cancelInfo |-> cancelInfo,
   cliCall |-> cliCall, resumeCall |-> resumeCall, restore |-> restore]

Commit(s) ==
  /\ pendingFiles' = s.pendingFiles
  /\ activeUploads' = s.activeUploads
  /\ handler' = s.handler
  /\ maxConcurrency' = s.maxConcurrency
  /\ completionCallback' = s.completionCallback
  /\ checkInterval' = s.checkInterval
  /\ leakedTimers' = s.leakedTimers
  /\ handlers' = s.handlers
  /\ nextUploadId' = s.nextUploadId
  /\ targetDir' = s.targetDir
  /\ useResume' = s.useResume
  /\ uploadedFiles' = s.uploadedFiles
  /\ createdDirectories' = s.createdDirectories
  /\ totalFiles' = s.totalFiles
  /\ completedFiles' = s.completedFiles
  /\ failedFiles' = s.failedFiles
  /\ progressDisplay' = s.progressDisplay
  /\ forceUpload' = s.forceUpload
  /\ uploadState' = s.uploadState
  /\ cache' = s.cache
  /\ cacheLoads' = s.cacheLoads
  /\ largeTasks' = s.largeTasks
  /\ fileContent' = s.fileContent
  /\ stateFile' = s.stateFile
  /\ cacheFile' = s.cacheFile
  /\ resumeStates' = s.resumeStates
  /\ remote' = s.remote
  /\ runPc' = s.runPc
  /\ runEntry' = s.runEntry
  /\ allFiles' = s.allFiles
  /\ filesToUpload' = s.filesToUpload
  /\ scanIndex' = s.scanIndex
  /\ preCreateDirs' = s.preCreateDirs
  /\ runOptions' = s.runOptions
  /\ batch' = s.batch
  /\ started' = s.started
  /\ apiCalls' = s.apiCalls
  /\ dispatchLog' = s.dispatchLog
  /\ settledCount' = s.settledCount
  /\ completeCalls' = s.completeCalls
  /\ errorLog' = s.errorLog
  /\ runs' = s.runs
  /\ runForced' = s.runForced
  /\ runExit' = s.runExit
  /\ recordCalls' = s.recordCalls
  /\ saveCalls' = s.saveCalls
  /\ runOk' = s.runOk
  /\ treeAtRun' = s.treeAtRun
  /\ edits' = s.edits
  /\ foldersCreated' = s.foldersCreated
  /\ mkdirCalls' = s.mkdirCalls
  /\ uploadCalls' = s.uploadCalls
  /\ syncCliStatus' = s.syncCliStatus
  /\ jobs' = s.jobs
  /\ cronJobs' = s.cronJobs
  /\ daemons' = s.daemons
  /\ backups' = s.backups
  /\ signalHandlers' = s.signalHandlers
  /\ keepAliveTimers' = s.keepAliveTimers
  /\ processExited' = s.processExited
  /\ firings' = s.firings
  /\ hashCall' = s.hashCall
  /\ scanCall' = s.scanCall
  /\ cancelInfo' = s.cancelInfo
  /\ cliCall' = s.cliCall
  /\ resumeCall' = s.resumeCall
  /\ restore' = s.restore

(***************************************************************************)
(* Helpers.                                                                *)
(***************************************************************************)
BoundedSeq(S, n) == UNION {[1..k -> S] : k \in 0..n}

Min(a, b) == IF a < b THEN a ELSE b

\* f with key k bound to v (Map.set / object property assignment)
MapSet(f, k, v) == [x \in DOMAIN f \cup {k} |-> IF x = k THEN v ELSE f[x]]

\* f without key k (Map.delete)
MapDelete(f, k) == [x \in DOMAIN f \ {k} |-> f[x]]

EmptyMap == <<>>

Range(f) == {f[x] : x \in DOMAIN f}

\* String.prototype.lastIndexOf(ch), 0-based, -1 when ch does not occur.
lastIndexOf(str, ch) ==
  LET hits == {i \in 1..Len(str) : str[i] = ch}
  IN IF hits = {} THEN -1 ELSE (CHOOSE i \in hits : \A j \in hits : j <= i) - 1

\* String.prototype.substring(0, end), end 0-based exclusive.
substring0(str, end) == SubSeq(str, 1, end)

\* replace(/\\/g, "/")
backslashesToSlashes(str) == [i \in 1..Len(str) |-> IF str[i] = "\\" THEN "/" ELSE str[i]]

\* `${a}/${b}`
joinSlash(a, b) == a \o <<"/">> \o b

\* String.prototype.trim()
RECURSIVE trimStart(_)
trimStart(str) ==
  IF str # <<>> /\ Head(str) = " " THEN trimStart(Tail(str)) ELSE str

RECURSIVE trimEnd(_)
trimEnd(str) ==
  IF str # <<>> /\ str[Len(str)] = " " THEN trimEnd(SubSeq(str, 1, Len(str) - 1)) ELSE str

trim(str) == trimEnd(trimStart(str))

\* crypto.createHash("md5") of a file's bytes: distinct contents are taken to
\* have distinct digests.
MD5(content) == <<"md5", content>>

\* crypto.createHash("sha256") of a file's bytes (resumable-uploader.ts).
SHA256(content) == <<"sha256", content>>

(***************************************************************************)
(* The source tree.  A file's size is fixed by its name; its content is    *)
(* what local edits change.                                                *)
(***************************************************************************)
ResumableThreshold == 104857600

DEFAULT_CHUNK_SIZE == 52428800

FileA == <<"a">>

FileDB == <<"d", "/", "b">>

FileBig == <<"b", "i", "g">>

FileEdge == <<"e", "d", "g", "e">>

\* fs.statSync(path).size / Bun.file(path).size
FileSize(path) ==
  CASE path = FileBig -> ResumableThreshold + 1
    [] path = FileEdge -> ResumableThreshold
    [] path = FileDB -> 200
    [] OTHER -> 100

Contents == 1..MaxContent

\* A file of the temporary directory that does not exist; one that exists
\* is the one-element sequence of its parsed content.  A file whose text
\* cannot be parsed has a second element, the damage.
NoFile == <<>>

(***************************************************************************)
(* progress-tracker.ts                                                     *)
(***************************************************************************)
\* The module as it is loaded: no timer, the console methods as they are.
NoProgressDisplay ==
  [updateInterval |-> FALSE, isTrackingActive |-> FALSE, consoleOverridden |-> FALSE]

\* initProgressTracker(totalFiles), lines 335-343, with setupConsoleOverrides.
initProgressTracker(s, total) ==
  [s EXCEPT !.totalFiles = total, !.completedFiles = 0, !.failedFiles = 0,
            !.progressDisplay.consoleOverridden = TRUE]

\* stopProgressUpdates, lines 437-449, with restoreConsole.
stopProgressUpdates(s) == [s EXCEPT !.progressDisplay = NoProgressDisplay]

\* displayProgress, lines 396-417: the bar is written; when every file has
\* been processed the updates stop.
displayProgress(s) ==
  IF ~s.progressDisplay.isTrackingActive THEN s
  ELSE IF s.completedFiles + s.failedFiles = s.totalFiles /\ s.totalFiles > 0
  THEN stopProgressUpdates(s)
  ELSE s

\* startProgressUpdates, lines 427-435.
startProgressUpdates(s) ==
  displayProgress([stopProgressUpdates(s) EXCEPT
                     !.progressDisplay.isTrackingActive = TRUE,
                     !.progressDisplay.updateInterval = TRUE])

\* displayProgressSummary, lines 451-463.
displayProgressSummary(s) ==
  IF s.progressDisplay.isTrackingActive THEN stopProgressUpdates(s) ELSE s

recordProgressSuccess(s) == [s EXCEPT !.completedFiles = @ + 1]

recordProgressFailure(s) == [s EXCEPT !.failedFiles = @ + 1]

(***************************************************************************)
(* file-scanner.ts: the scanner state.                                     *)
(***************************************************************************)
EmptyUploadState == [files |-> EmptyMap, lastRun |-> 0]

\* initFileScanner(sourceDir, verbosity, forceUpload)
initFileScanner(s, force) ==
  [s EXCEPT !.forceUpload = force, !.uploadState = EmptyUploadState]

\* loadScannerState, once loadJsonFromFile has read the file: the parsed
\* content, or the default value when the file cannot be read.
loadScannerState(s) ==
  [s EXCEPT !.uploadState = IF s.stateFile = NoFile THEN EmptyUploadState ELSE s.stateFile[1]]

\* saveScannerState: saveJsonToFile serialises _uploadState and writes it.
saveScannerState(s) ==
  [s EXCEPT !.stateFile = <<s.uploadState>>, !.saveCalls = @ + 1]

updateScannerFileState(s, relativePath, checksum) ==
  [s EXCEPT !.uploadState.files = MapSet(@, relativePath, checksum)]

\* recordScannerCompletion: lastRun becomes the time of the call, which is
\* the same for no two runs.
recordScannerCompletion(s) ==
  [s EXCEPT !.uploadState.lastRun = s.runs, !.recordCalls = @ + 1]

(***************************************************************************)
(* hash-cache.ts.  The cache is keyed by the file's normalized absolute    *)
(* path, which names the same file as its path relative to the source      *)
(* directory; the model uses the relative path as the key.                 *)
(***************************************************************************)
\* loadHashCache, the synchronous start: existsSync decides whether a read
\* of the cache file is started at all.
loadHashCacheStarts(s) == s.cacheFile # NoFile

\* loadHashCache, once file.text() has delivered the file: _cache is
\* replaced by the parsed content.  JSON.parse throws on a text that is
\* not JSON, and the catch leaves _cache as it was.
loadHashCacheDone(s) ==
  IF s.cacheFile = NoFile \/ Len(s.cacheFile) > 1 THEN s
  ELSE [s EXCEPT !.cache = s.cacheFile[1]]

\* A call made directly to the hash cache: what was called, for which path,
\* where the call is, what it returned and why, and the document a save in
\* flight is writing.
NoHashCall ==
  [op |-> "none", path |-> <<>>, pc |-> "idle", result |-> FALSE,
   note |-> "none", doc |-> EmptyMap]

\* saveHashCache: the cache is serialised and written.
saveHashCache(s) == [s EXCEPT !.cacheFile = <<s.cache>>]

\* The value hashCacheHasChanged returns for the file, once
\* calculateFileHash has read it.
hashChanged(s, path) ==
  LET currentHash == MD5(s.fileContent[path])
  IN IF path \notin DOMAIN s.cache THEN TRUE ELSE currentHash # s.cache[path]

\* hashCacheHasChanged, lines 61-89: a missing or different stored digest is
\* replaced by the current one, and the cache is saved, at once.
hashCacheHasChanged(s, path) ==
  IF hashChanged(s, path)
  THEN saveHashCache([s EXCEPT !.cache = MapSet(@, path, MD5(s.fileContent[path]))])
  ELSE s

(***************************************************************************)
(* internxt-service.ts: how the operations read what the CLI process       *)
(* gives.  A text is a sequence of words; what the process gives is its    *)
(* stdout, its stderr and its exit code.                                   *)
(***************************************************************************)
toLowerCase(text) ==
  [i \in DOMAIN text |-> IF text[i] = "Error" THEN "error" ELSE text[i]]

includes(text, word) == \E i \in DOMAIN text : text[i] = word

\* stdout || stderr
stdoutOrStderr(cli) == IF cli.stdout # <<>> THEN cli.stdout ELSE cli.stderr

\* The message of the error execAsync rejects with when the exit code is
\* not 0: "Command failed: " and the command, then stderr.
execMessage(cli) == <<"Command failed: internxt">> \o cli.stderr

\* internxtUploadFile, lines 71-82, and internxtDownloadFile, lines 233-244.
execTransferResult(cli) ==
  IF cli.code # 0 THEN FALSE
  ELSE LET output == toLowerCase(stdoutOrStderr(cli))
       IN ~(includes(output, "error") \/ includes(output, "failed"))

\* internxtUploadFileWithProgress, lines 120-127, and
\* internxtDownloadFileWithProgress, lines 276-283: the close event.
spawnTransferResult(cli) ==
  cli.code = 0 /\ ~includes(toLowerCase(cli.stdout \o cli.stderr), "error")

\* internxtCreateFolder, lines 143-157.
createFolderResult(cli) ==
  IF cli.code # 0
    THEN includes(toLowerCase(execMessage(cli)), "already exists")
    ELSE LET output == toLowerCase(stdoutOrStderr(cli))
         IN ~(includes(output, "error") /\ ~includes(output, "already exists"))

NoCliCall ==
  [op |-> "none", cli |-> [stdout |-> <<>>, stderr |-> <<>>, code |-> 0],
   success |-> FALSE]

(***************************************************************************)
(* file-scanner.ts, scanDirectory.  A directory entry is a record: its     *)
(* name (a string of characters), its kind ("file", "dir", or "other" for  *)
(* what is neither), whether it can be read (readdirSync for a directory,  *)
(* statSync and the read of calculateChecksum for a file), the content of  *)
(* a file and the entries of a directory in the order readdirSync gives    *)
(* them.                                                                   *)
(***************************************************************************)
\* _statePath: the scanner-state file, in the temporary directory.
TmpDir == <<"/", "t">>

StatePath == joinSlash(TmpDir, <<"s">>)

\* path.relative(baseDir, fullPath) for a path below baseDir.
pathRelative(baseDir, fullPath) == SubSeq(fullPath, Len(baseDir) + 2, Len(fullPath))

RECURSIVE scanDirectory(_, _, _)
RECURSIVE scanEntries(_, _, _)

scanEntries_SubdirectoryThrows(entries, dir, baseDir) ==
  IF entries = <<>> THEN [threw |-> FALSE, files |-> <<>>]
  ELSE
    LET entry == Head(entries)
        fullPath == joinSlash(dir, entry.name)
        rest == scanEntries(Tail(entries), dir, baseDir)
        file == [relativePath |-> pathRelative(baseDir, fullPath), size |-> 1,
                 checksum |-> MD5(entry.content), hasChanged |-> "null"]
    IN IF Head(entry.name) = "." \/ fullPath = StatePath THEN rest
       ELSE IF entry.kind = "dir"
         THEN IF entry.readable
              THEN [rest EXCEPT !.files = scanDirectory(entry, fullPath, baseDir) \o @]
              ELSE [threw |-> TRUE, files |-> <<>>]
       ELSE IF entry.kind = "file"
         THEN IF entry.readable THEN [rest EXCEPT !.files = <<file>> \o @]
              ELSE [threw |-> TRUE, files |-> <<>>]
       ELSE rest

\* scanDirectory, lines 58-83: the loop over the entries.  A file that
\* cannot be read throws out of the loop.
scanEntries(entries, dir, baseDir) ==
  IF entries = <<>> THEN [threw |-> FALSE, files |-> <<>>]
  ELSE
    LET entry == Head(entries)
        fullPath == joinSlash(dir, entry.name)
        rest == scanEntries(Tail(entries), dir, baseDir)
        file == [relativePath |-> pathRelative(baseDir, fullPath), size |-> 1,
                 checksum |-> MD5(entry.content), hasChanged |-> "null"]
    IN IF Head(entry.name) = "." \/ fullPath = StatePath THEN rest
       ELSE IF entry.kind = "dir"
         THEN [rest EXCEPT !.files = scanDirectory(entry, fullPath, baseDir) \o @]
       ELSE IF entry.kind = "file"
         THEN IF entry.readable THEN [rest EXCEPT !.files = <<file>> \o @]
              ELSE [threw |-> TRUE, files |-> <<>>]
       ELSE rest

scanDirectory_KeepsCollected(directory, dir, baseDir) ==
  IF ~directory.readable THEN <<>>
  ELSE scanEntries(directory.entries, dir, baseDir).files

\* scanDirectory, lines 53-91: whatever is thrown inside, by readdirSync or
\* in the loop, is caught and answered with the empty list.
scanDirectory(directory, dir, baseDir) ==
  IF ~directory.readable THEN <<>>
  ELSE LET r == scanEntries(directory.entries, dir, baseDir)
       IN IF r.threw THEN <<>> ELSE r.files

NoScanCall ==
  [pc |-> "idle", baseDir |-> <<>>,
   directory |-> [name |-> <<>>, kind |-> "dir", readable |-> TRUE, content |-> 1,
                  entries |-> <<>>],
   files |-> <<>>]

(***************************************************************************)
(* resumable-uploader.ts.  A call of uploadLargeFile in flight is a record *)
(* of its local variables, under a key that names its caller.              *)
(***************************************************************************)
maxRetries == 3

shouldUseResumable(fileSize) == fileSize > ResumableThreshold

\* Math.ceil(fileSize / _chunkSize)
totalChunksOf(fileSize) == (fileSize + DEFAULT_CHUNK_SIZE - 1) \div DEFAULT_CHUNK_SIZE

RECURSIVE pow2(_)
pow2(n) == IF n = 0 THEN 1 ELSE 2 * pow2(n - 1)

\* _retryDelayMs ?? Math.min(1000 * Math.pow(2, retryCount), 10000), with
\* _retryDelayMs left undefined
retryDelay(retryCount) == Min(1000 * pow2(retryCount), 10000)

\* saveState(state): Bun.write of the state file.
saveState(s, state) == [s EXCEPT !.resumeStates = MapSet(@, state.filePath, state)]

\* clearResumableState(filePath): the state file is deleted if it exists.
clearResumableState(s, filePath) ==
  [s EXCEPT !.resumeStates = MapDelete(@, filePath)]

largeReturn(s, k, success, error) ==
  [s EXCEPT !.largeTasks[k].pc = "returned",
            !.largeTasks[k].result = [success |-> success, error |-> error]]

\* The attempt loop of uploadLargeFile, lines 160-173: the next call of
\* internxtUploadFileWithProgress is started.
largeAttempt(s, k) ==
  [s EXCEPT !.largeTasks[k].pc = "attempt", !.largeTasks[k].attempts = @ + 1]

\* The local variables checksum and state before they are assigned, and the
\* result of a call that has not returned.
NoChecksum == <<"none">>

NoState == [filePath |-> <<>>, checksum |-> NoChecksum, totalChunks |-> 0, uploadedChunks |-> 0]

NoResult == [success |-> FALSE, error |-> "pending"]

\* uploadLargeFile, lines 120-131 and 133: the start of the call, up to its
\* first await.
uploadLargeFile(s, k, filePath) ==
  LET fileSize == FileSize(filePath)
      task == [filePath |-> filePath, fileSize |-> fileSize,
               pc |-> IF shouldUseResumable(fileSize) THEN "checksum" ELSE "plainUpload",
               checksum |-> NoChecksum, state |-> NoState, retryCount |-> 0,
               resumed |-> FALSE, discarded |-> FALSE, attempts |-> 0, delays |-> <<>>,
               result |-> NoResult]
  IN [s EXCEPT !.largeTasks = MapSet(@, k, task)]

\* lines 123-130: the upload of a file at or below the threshold returns.
largePlainDone(s, k, success) ==
  largeReturn(s, k, success, IF success THEN "none" ELSE "service")

\* lines 137-148: the state uploadLargeFile starts from when loadState
\* returns null.
freshState(task, checksum) ==
  [filePath |-> task.filePath, checksum |-> checksum,
   totalChunks |-> totalChunksOf(task.fileSize), uploadedChunks |-> 0]

\* lines 133-134: calculateChecksum has read the file (or thrown, and the
\* outer catch returns the failure); loadState starts, and returns null at
\* once when no state file exists.
largeChecksumDone(s, k, readable) ==
  LET task == s.largeTasks[k]
      checksum == SHA256(s.fileContent[task.filePath])
  IN IF ~readable THEN largeReturn(s, k, FALSE, "thrown")
     ELSE IF task.filePath \notin DOMAIN s.resumeStates
     THEN largeAttempt([s EXCEPT !.largeTasks[k].checksum = checksum,
                                 !.largeTasks[k].state = freshState(task, checksum)], k)
     ELSE [s EXCEPT !.largeTasks[k].checksum = checksum,
                    !.largeTasks[k].pc = "loadState"]

\* loadState, lines 57-61: the state file has been read (null when it has
\* disappeared meanwhile); calculateChecksum of the file starts.
largeLoadStateRead(s, k) ==
  LET task == s.largeTasks[k]
  IN IF task.filePath \notin DOMAIN s.resumeStates
     THEN largeAttempt([s EXCEPT !.largeTasks[k].state = freshState(task, task.checksum)], k)
     ELSE [s EXCEPT !.largeTasks[k].state = s.resumeStates[task.filePath],
                    !.largeTasks[k].pc = "loadChecksum"]

largeLoadStateChecked_KeepsStale(s, k) ==
  largeAttempt([s EXCEPT !.largeTasks[k].resumed = TRUE], k)

\* loadState, lines 61-69: a state whose checksum is not the file's is
\* cleared and dropped, another is the state the upload resumes from; then
\* the first attempt starts.
largeLoadStateChecked(s, k) ==
  LET task == s.largeTasks[k]
      currentChecksum == SHA256(s.fileContent[task.filePath])
  IN IF task.state.checksum # currentChecksum
     THEN largeAttempt([clearResumableState(s, task.filePath)
                          EXCEPT !.largeTasks[k].state = freshState(task, task.checksum),
                                 !.largeTasks[k].discarded = TRUE], k)
     ELSE largeAttempt([s EXCEPT !.largeTasks[k].resumed = TRUE], k)

largeAttemptDone_NoClear(s, k, success) ==
  LET task == s.largeTasks[k]
      retryCount == task.retryCount + 1
  IN IF success
     THEN largeReturn(s, k, TRUE, "none")
     ELSE IF retryCount >= maxRetries
     THEN largeReturn(saveState([s EXCEPT !.largeTasks[k].retryCount = retryCount],
                                task.state), k, FALSE, "attempts")
     ELSE [s EXCEPT !.largeTasks[k].retryCount = retryCount,
                    !.largeTasks[k].delays = Append(@, retryDelay(retryCount)),
                    !.largeTasks[k].pc = "delay"]

largeAttemptDone_OneMore(s, k, success) ==
  LET task == s.largeTasks[k]
      retryCount == task.retryCount + 1
  IN IF success
     THEN largeReturn(clearResumableState(s, task.filePath), k, TRUE, "none")
     ELSE IF retryCount > maxRetries
     THEN largeReturn(saveState([s EXCEPT !.largeTasks[k].retryCount = retryCount],
                                task.state), k, FALSE, "attempts")
     ELSE [s EXCEPT !.largeTasks[k].retryCount = retryCount,
                    !.largeTasks[k].delays = Append(@, retryDelay(retryCount)),
                    !.largeTasks[k].pc = "delay"]

\* lines 160-198: an attempt has ended.  Success clears the state and
\* returns; a failure counts, and either saves the state and returns (the
\* last attempt) or waits for the retry delay.
largeAttemptDone(s, k, success) ==
  LET task == s.largeTasks[k]
      retryCount == task.retryCount + 1
  IN IF success
     THEN largeReturn(clearResumableState(s, task.filePath), k, TRUE, "none")
     ELSE IF retryCount >= maxRetries
     THEN largeReturn(saveState([s EXCEPT !.largeTasks[k].retryCount = retryCount],
                                task.state), k, FALSE, "attempts")
     ELSE [s EXCEPT !.largeTasks[k].retryCount = retryCount,
                    !.largeTasks[k].delays = Append(@, retryDelay(retryCount)),
                    !.largeTasks[k].pc = "delay"]

\* line 197: the retry delay has passed; the loop starts the next attempt.
largeDelayDone(s, k) == largeAttempt(s, k)

\* getResumableProgress, lines 208-212, as loadState answers it: 0 without
\* a state file or with a state of another content.
getResumableProgress(s, filePath) ==
  IF filePath \notin DOMAIN s.resumeStates THEN 0
  ELSE LET state == s.resumeStates[filePath]
       IN IF state.checksum # SHA256(s.fileContent[filePath]) THEN 0
          ELSE (200 * state.uploadedChunks + state.totalChunks) \div (2 * state.totalChunks)

\* A call of canResumeUpload: the path, where the call is, the state
\* loadState has read, the answer.
NoResumeCall == [filePath |-> <<>>, pc |-> "idle", state |-> NoState, result |-> FALSE]

resumeCallReturns(s, result) ==
  [s EXCEPT !.resumeCall.pc = "returned", !.resumeCall.result = result]

\* canResumeUpload, line 215, into loadState, lines 55-58: without a state
\* file loadState answers null at once; otherwise the file is read.
canResumeUpload(s, filePath) ==
  LET s1 == [s EXCEPT !.resumeCall = [NoResumeCall EXCEPT !.filePath = filePath]]
  IN IF filePath \notin DOMAIN s.resumeStates
     THEN resumeCallReturns(s1, FALSE)
     ELSE [s1 EXCEPT !.resumeCall.pc = "read"]

\* loadState, lines 58-61: the state file has been read and parsed, or has
\* disappeared meanwhile; calculateChecksum of the file starts.
canResumeStateRead(s) ==
  LET filePath == s.resumeCall.filePath
  IN IF filePath \notin DOMAIN s.resumeStates
     THEN resumeCallReturns(s, FALSE)
     ELSE [s EXCEPT !.resumeCall.state = s.resumeStates[filePath],
                    !.resumeCall.pc = "checksum"]

canResumeChecked_NeedsProgress(s) ==
  LET filePath == s.resumeCall.filePath
      state == s.resumeCall.state
  IN IF state.checksum # SHA256(s.fileContent[filePath])
     THEN resumeCallReturns(clearResumableState(s, filePath), FALSE)
     ELSE resumeCallReturns(s, 0 < state.uploadedChunks
                                 /\ state.uploadedChunks < state.totalChunks)

\* loadState, lines 61-69, and canResumeUpload, line 216.
canResumeChecked(s) ==
  LET filePath == s.resumeCall.filePath
      state == s.resumeCall.state
  IN IF state.checksum # SHA256(s.fileContent[filePath])
     THEN resumeCallReturns(clearResumableState(s, filePath), FALSE)
     ELSE resumeCallReturns(s, state.uploadedChunks < state.totalChunks)

(***************************************************************************)
(* uploader.ts: handleFileUpload.  A handler invocation in flight is the   *)
(* record [file, pc]: pc names the operation it awaits, or how its promise *)
(* has settled ("resolved": success true, "failed": success false).        *)
(***************************************************************************)
\* getPathInfo(fileInfo), lines 112-129.  _normalizedPaths only memoises the
\* result: initUploader, the one place that changes _targetDir, clears it.
getPathInfo(s, fileInfo) ==
  LET normalizedPath == backslashesToSlashes(fileInfo.relativePath)
      lastSlashIndex == lastIndexOf(normalizedPath, "/")
      directory == IF lastSlashIndex > 0
                   THEN substring0(normalizedPath, lastSlashIndex) ELSE <<>>
  IN [normalizedPath |-> normalizedPath,
      directory |-> directory,
      targetPath |-> IF s.targetDir # <<>>
                     THEN joinSlash(s.targetDir, normalizedPath) ELSE normalizedPath,
      fullDirectoryPath |-> IF directory # <<>>
                            THEN (IF s.targetDir # <<>>
                                  THEN joinSlash(s.targetDir, directory) ELSE directory)
                            ELSE s.targetDir]

\* internxtCreateFolder(remotePath): the create-folder command is issued.
createFolderIssued(s) == [s EXCEPT !.mkdirCalls = @ + 1]

\* internxtCreateFolder, lines 143-157: the command has answered; success
\* includes the answer that the folder already exists.
createFolderAnswered(s, remotePath, success) ==
  IF success THEN [s EXCEPT !.foldersCreated = @ \cup {remotePath}] ELSE s

\* ensureDirectoryExists(directory), lines 99-103: TRUE when the call
\* returns without asking the service.
directoryKnown(s, directory) == directory = <<>> \/ directory \in s.createdDirectories

\* ensureDirectoryExists, lines 105-109: internxtCreateFolder has answered.
directoryCreated(s, directory, success) ==
  LET s1 == createFolderAnswered(s, directory, success)
  IN IF success THEN [s1 EXCEPT !.createdDirectories = @ \cup {directory}] ELSE s1

handlerAt(s, uploadId, pc) == [s EXCEPT !.handlers[uploadId].pc = pc]

\* internxtUploadFile, lines 65-69: the folder of a remote path, empty when
\* the last slash is at index 0 or missing.
remoteFolderOf(remotePath) ==
  LET lastSlashIndex == lastIndexOf(remotePath, "/")
  IN IF lastSlashIndex > 0 THEN substring0(remotePath, lastSlashIndex) ELSE <<>>

\* internxtUploadFile, line 71: the upload-file command is issued.
uploadFileIssued(s, uploadId) ==
  handlerAt([s EXCEPT !.uploadCalls = @ + 1], uploadId, "upload")

\* internxtUploadFile(localPath, remotePath), lines 61-71: the call, up to
\* its first await.  The folder of the remote path is created first.
internxtUploadFile(s, uploadId) ==
  LET remotePath == getPathInfo(s, s.handlers[uploadId].file).targetPath
  IN IF remoteFolderOf(remotePath) # <<>>
     THEN handlerAt(createFolderIssued(s), uploadId, "uploadMkDir")
     ELSE uploadFileIssued(s, uploadId)

\* internxtUploadFile, lines 68-71: internxtCreateFolder has answered; its
\* result is not looked at.
internxtUploadFolderDone(s, uploadId, success) ==
  LET remotePath == getPathInfo(s, s.handlers[uploadId].file).targetPath
  IN uploadFileIssued(createFolderAnswered(s, remoteFolderOf(remotePath), success),
                      uploadId)

\* lines 166-185: the upload is started, by uploadLargeFile when resume is
\* on and the file is above the threshold.
handlerSend(s, uploadId) ==
  LET fileInfo == s.handlers[uploadId].file
  IN IF s.useResume /\ shouldUseResumable(fileInfo.size)
     THEN uploadLargeFile(handlerAt(s, uploadId, "uploadLarge"), uploadId,
                          fileInfo.relativePath)
     ELSE internxtUploadFile(s, uploadId)

\* lines 159-164: the file's directory is ensured.
handlerFileDir(s, uploadId) ==
  LET pathInfo == getPathInfo(s, s.handlers[uploadId].file)
  IN IF pathInfo.directory # <<>> /\ ~directoryKnown(s, pathInfo.fullDirectoryPath)
     THEN handlerAt(createFolderIssued(s), uploadId, "mkDir")
     ELSE handlerSend(s, uploadId)

\* lines 153-157: the target directory is ensured.
handlerTargetDir(s, uploadId) ==
  IF s.targetDir # <<>> /\ ~directoryKnown(s, s.targetDir)
  THEN handlerAt(createFolderIssued(s), uploadId, "mkTarget")
  ELSE handlerFileDir(s, uploadId)

\* handleFileUpload(fileInfo), lines 131-157: the call, up to its first
\* await of an operation that is not finished.
handleFileUpload(s, uploadId, fileInfo) ==
  LET s1 == [s EXCEPT !.handlers = MapSet(@, uploadId, [file |-> fileInfo, pc |-> "start"])]
  IN IF fileInfo.relativePath \in s1.uploadedFiles
     THEN handlerAt(s1, uploadId, "resolved")
     ELSE IF fileInfo.hasChanged = "false"
     THEN handlerAt(recordProgressSuccess(s1), uploadId, "resolved")
     ELSE IF fileInfo.hasChanged = "null"
     THEN handlerAt(s1, uploadId, "hashCheck")
     ELSE handlerTargetDir(s1, uploadId)

\* lines 144-151: hashCacheHasChanged has answered.
handlerHashChecked(s, uploadId) ==
  LET path == s.handlers[uploadId].file.relativePath
      s1 == hashCacheHasChanged(s, path)
  IN IF ~hashChanged(s, path)
     THEN handlerAt(recordProgressSuccess(s1), uploadId, "resolved")
     ELSE handlerTargetDir(s1, uploadId)

\* lines 155-157 resumed: internxtCreateFolder(_targetDir) has answered.
handlerTargetDirDone(s, uploadId, success) ==
  handlerFileDir(directoryCreated(s, s.targetDir, success), uploadId)

\* lines 161-164 resumed: internxtCreateFolder(fullDirectoryPath) has answered.
handlerFileDirDone(s, uploadId, success) ==
  LET pathInfo == getPathInfo(s, s.handlers[uploadId].file)
  IN handlerSend(directoryCreated(s, pathInfo.fullDirectoryPath, success), uploadId)

\* lines 187-203: the upload has answered with success, answered with a
\* failure, or thrown.
handlerUploadDone(s, uploadId, outcome) ==
  LET fileInfo == s.handlers[uploadId].file
      path == fileInfo.relativePath
  IN IF outcome = "success"
     THEN handlerAt(
            recordProgressSuccess(
              updateScannerFileState(
                [s EXCEPT !.uploadedFiles = @ \cup {path},
                          !.remote = MapSet(@, path, s.fileContent[path])],
                path, fileInfo.checksum)),
            uploadId, "resolved")
     ELSE handlerAt(recordProgressFailure(s), uploadId, "failed")

\* lines 170-182 resumed: uploadLargeFile has returned.
handlerLargeDone(s, uploadId) ==
  LET result == s.largeTasks[uploadId].result
  IN handlerUploadDone([s EXCEPT !.largeTasks = MapDelete(@, uploadId)], uploadId,
                       IF result.success THEN "success" ELSE "failure")

(***************************************************************************)
(* uploader.ts: startUpload after the queue's promise, lines 256-265.      *)
(***************************************************************************)
\* The run returns to its caller.
runReturns(s, exit) ==
  [s EXCEPT !.runPc = "idle", !.runExit = exit,
            !.runOk = Append(@, exit = "normal" /\ s.failedFiles = 0)]

\* lines 256-257: the promise given to startFileQueue is resolved, and
\* startUpload resumes in the same microtask checkpoint; saveScannerState
\* starts its write.
startUploadResumes(s) ==
  [saveScannerState(recordScannerCompletion(s)) EXCEPT !.runPc = "saveState"]

\* lines 258-265: the write has ended; the summary is shown, the progress
\* updates stop, startUpload (and syncFiles, if it is the caller) returns.
startUploadReturns(s) ==
  runReturns(stopProgressUpdates(displayProgressSummary(s)), "normal")

(***************************************************************************)
(* restore-manager.ts: the download handler that downloadFiles gives to    *)
(* the queue, and downloadFiles after the queue's promise.                 *)
(***************************************************************************)
\* No result returned yet.
NoRestoreResult ==
  [success |-> FALSE, totalFiles |-> -1, downloaded |-> -1, skipped |-> -1, failed |-> -1]

\* The module as it is loaded, no call of restoreFiles made.  runs counts
\* the calls; failedFiles is the local list of downloadFiles.
NoRestore ==
  [pc |-> "idle", runs |-> 0, force |-> FALSE, cores |-> 1,
   files |-> <<>>, filterIndex |-> 0, filesToDownload |-> <<>>,
   downloadedFiles |-> {}, skippedFiles |-> {}, failedFiles |-> <<>>,
   exit |-> "none", result |-> NoRestoreResult]

\* downloadHandler(fileInfo), lines 420-421: the call, up to the await of
\* downloadFile.
downloadHandler(s, uploadId, fileInfo) ==
  [s EXCEPT !.handlers = MapSet(@, uploadId, [file |-> fileInfo, pc |-> "download"])]

downloadAnswered_FailureUncounted(s, uploadId, success) ==
  LET fileInfo == s.handlers[uploadId].file
  IN IF success
     THEN handlerAt(recordProgressSuccess(
                      [s EXCEPT !.restore.downloadedFiles = @ \cup {fileInfo.remotePath}]),
                    uploadId, "resolved")
     ELSE handlerAt(recordProgressFailure(s), uploadId, "resolved")

\* downloadHandler, lines 423-431: downloadFile has answered; it never
\* rejects (downloader.ts catches everything), so the handler resolves.
downloadAnswered(s, uploadId, success) ==
  LET fileInfo == s.handlers[uploadId].file
  IN IF success
     THEN handlerAt(recordProgressSuccess(
                      [s EXCEPT !.restore.downloadedFiles = @ \cup {fileInfo.remotePath}]),
                    uploadId, "resolved")
     ELSE handlerAt(recordProgressFailure(
                      [s EXCEPT !.restore.failedFiles = Append(@, fileInfo)]),
                    uploadId, "resolved")

\* restoreFiles returns a result.
restoreReturns(s, exit, result) ==
  [s EXCEPT !.restore.pc = "idle", !.restore.exit = exit, !.restore.result = result]

\* downloadFiles, lines 442-456: the promise of the queue is resolved; the
\* summary is shown, the result is made of the two sets and the list, and
\* the finally stops the progress display.
downloadFilesResumes(s) ==
  LET s1 == stopProgressUpdates(displayProgressSummary(s))
  IN restoreReturns(s1, "downloaded",
       [success |-> Len(s.restore.failedFiles) = 0,
        totalFiles |-> Len(s.restore.files),
        downloaded |-> Cardinality(s.restore.downloadedFiles),
        skipped |-> Cardinality(s.restore.skippedFiles),
        failed |-> Len(s.restore.failedFiles)])

(***************************************************************************)
(* file-upload-manager.ts: the transfer queue.                             *)
(***************************************************************************)

\* The tasks of the queue on its own: FileInfo objects handed to a mock
\* handler (file-upload-manager.test.ts, testFiles).
MockFileInfo(name) ==
  [relativePath |-> name, size |-> 100, checksum |-> "abc123", hasChanged |-> "false"]

QueueFiles == {MockFileInfo(<<"a">>), MockFileInfo(<<"b">>)}

ApiFiles == {MockFileInfo(<<"a">>)}

\* _completionCallback(): the callback given to startFileQueue is invoked.
\* startUpload passes the resolve function of the promise it awaits; a
\* resolved promise ignores further calls.
invokeCompletionCallback(s) ==
  LET s1 == [s EXCEPT !.completeCalls = @ + 1]
  IN IF s.completionCallback = "resolve" /\ s.runPc = "awaitQueue"
     THEN startUploadResumes(s1)
     ELSE IF s.completionCallback = "resolveRestore" /\ s.restore.pc = "awaitQueue"
     THEN downloadFilesResumes(s1)
     ELSE s1

completionDue_IgnoresActive(s) == s.completionCallback # "null"

\* processNextFile, line 19: the completion test made when nothing is pending.
completionDue(s) == s.activeUploads = {} /\ s.completionCallback # "null"

hasCapacity_OffByOne(s) ==
  Cardinality(s.activeUploads) <= s.maxConcurrency /\ s.handler # "null"

\* processNextFile, line 25: room for one more handler invocation.
hasCapacity(s) == Cardinality(s.activeUploads) < s.maxConcurrency /\ s.handler # "null"

\* _handler(fileInfo): the synchronous start of a handler invocation.  The
\* mock handler of the queue tests returns a promise that settles later.
handlerStart(s, uploadId, fileInfo) ==
  IF s.handler = "handleFileUpload"
  THEN handleFileUpload(s, uploadId, fileInfo)
  ELSE IF s.handler = "downloadHandler"
  THEN downloadHandler(s, uploadId, fileInfo)
  ELSE [s EXCEPT !.handlers = MapSet(@, uploadId, [file |-> fileInfo, pc |-> "running"])]

\* processNextFile, lines 26-32: shift the next file, register a fresh
\* upload id (Date.now() plus a random suffix) and call the handler.
dispatchNext_TakesLast(s) ==
  LET fileInfo == s.pendingFiles[Len(s.pendingFiles)]
      uploadId == s.nextUploadId
  IN handlerStart([s EXCEPT !.pendingFiles = SubSeq(@, 1, Len(@) - 1),
                            !.activeUploads = @ \cup {uploadId},
                            !.nextUploadId = @ + 1,
                            !.dispatchLog = Append(@, fileInfo)],
                  uploadId, fileInfo)

dispatchNext_SkipsOne(s) ==
  LET fileInfo == Head(s.pendingFiles)
      uploadId == s.nextUploadId
  IN handlerStart([s EXCEPT !.pendingFiles = IF Len(@) >= 2 THEN Tail(Tail(@)) ELSE Tail(@),
                            !.activeUploads = @ \cup {uploadId},
                            !.nextUploadId = @ + 1,
                            !.dispatchLog = Append(@, fileInfo)],
                  uploadId, fileInfo)

dispatchNext(s) ==
  LET fileInfo == Head(s.pendingFiles)
      uploadId == s.nextUploadId
  IN handlerStart([s EXCEPT !.pendingFiles = Tail(@),
                            !.activeUploads = @ \cup {uploadId},
                            !.nextUploadId = @ + 1,
                            !.dispatchLog = Append(@, fileInfo)],
                  uploadId, fileInfo)

processNextFile(s) ==
  IF s.pendingFiles = <<>>
  THEN IF completionDue(s) THEN invokeCompletionCallback(s) ELSE s
  ELSE IF hasCapacity(s) THEN dispatchNext(s) ELSE s

RECURSIVE processNextFileTimes(_, _)
processNextFileTimes(s, n) ==
  IF n = 0 THEN s ELSE processNextFileTimes(processNextFile(s), n - 1)

\* initFileQueue(maxConcurrency, handler)
initFileQueue(s, mc, h) ==
  [s EXCEPT !.maxConcurrency = mc, !.handler = h, !.pendingFiles = <<>>,
            !.activeUploads = {}, !.completionCallback = "null"]

\* setFileQueue(files): the pending list is replaced.
setFileQueue(s, files) ==
  [s EXCEPT !.pendingFiles = files, !.batch = files, !.dispatchLog = <<>>,
            !.settledCount = 0, !.cancelInfo.live = FALSE]

startFileQueue_LaunchesOne(s, onComplete) ==
  LET s1 == [s EXCEPT !.completionCallback = onComplete, !.started = TRUE,
                      !.cancelInfo.restarted = TRUE]
      s2 == processNextFileTimes(s1, Min(1, Len(s1.pendingFiles)))
  IN IF s2.completionCallback # "null"
     THEN [s2 EXCEPT !.checkInterval = TRUE,
                     !.leakedTimers = IF s2.checkInterval THEN @ + 1 ELSE @]
     ELSE s2

\* startFileQueue(onComplete), lines 64-85.  setInterval registers a new
\* timer and overwrites _checkInterval: a timer registered by an earlier
\* call stays registered, and its handle is lost.
startFileQueue(s, onComplete) ==
  LET s1 == [s EXCEPT !.completionCallback = onComplete, !.started = TRUE,
                      !.cancelInfo.restarted = TRUE]
      initialBatchSize == Min(s1.maxConcurrency, Len(s1.pendingFiles))
      s2 == processNextFileTimes(s1, initialBatchSize)
  IN IF s2.completionCallback # "null"
     THEN [s2 EXCEPT !.checkInterval = TRUE,
                     !.leakedTimers = IF s2.checkInterval THEN @ + 1 ELSE @]
     ELSE s2

cancelFileQueue_ClearsActive(s) ==
  [s EXCEPT !.pendingFiles = <<>>, !.checkInterval = FALSE, !.activeUploads = {},
            !.handlers = EmptyMap,
            !.cancelInfo = [calls |-> @.calls + 1, live |-> TRUE, restarted |-> FALSE]]

\* cancelFileQueue, lines 87-95.
cancelFileQueue(s) ==
  [s EXCEPT !.pendingFiles = <<>>, !.checkInterval = FALSE,
            !.cancelInfo = [calls |-> @.calls + 1, live |-> TRUE, restarted |-> FALSE]]

\* The setInterval callback of startFileQueue, lines 75-83, run by the timer
\* _checkInterval holds: clearInterval(_checkInterval) stops that timer.
checkIntervalTick(s) ==
  IF s.pendingFiles = <<>> /\ s.activeUploads = {}
  THEN invokeCompletionCallback([s EXCEPT !.checkInterval = FALSE])
  ELSE s

\* The same callback run by a timer whose handle was overwritten:
\* clearInterval(_checkInterval) stops the newest timer, not the one running.
leakedIntervalTick(s) ==
  IF s.pendingFiles = <<>> /\ s.activeUploads = {}
  THEN invokeCompletionCallback([s EXCEPT !.checkInterval = FALSE])
  ELSE s

handlerSettled_CatchStops(s, uploadId) ==
  LET rejected == s.handlers[uploadId].pc = "rejected"
      s1 == [s EXCEPT !.activeUploads = @ \ {uploadId},
                      !.handlers = MapDelete(@, uploadId),
                      !.settledCount = @ + 1,
                      !.errorLog = IF rejected THEN @ + 1 ELSE @]
  IN IF rejected THEN s1 ELSE processNextFile(s1)

\* The .then / .catch callbacks of processNextFile, lines 33-41: both remove
\* the upload id and call processNextFile; .catch also logs the error.
handlerSettled(s, uploadId) ==
  LET rejected == s.handlers[uploadId].pc = "rejected"
  IN processNextFile([s EXCEPT !.activeUploads = @ \ {uploadId},
                               !.handlers = MapDelete(@, uploadId),
                               !.settledCount = @ + 1,
                               !.errorLog = IF rejected THEN @ + 1 ELSE @])

(***************************************************************************)
(* The state in which no function of the program has been called yet: the  *)
(* initial values of the modules' variables, an empty temporary directory  *)
(* and an empty drive.                                                     *)
(***************************************************************************)
ModuleInit(content) ==
  [pendingFiles |-> <<>>,
   activeUploads |-> {},
   handler |-> "null",
   maxConcurrency |-> 1,
   completionCallback |-> "null",
   checkInterval |-> FALSE,
   leakedTimers |-> 0,
   handlers |-> EmptyMap,
   nextUploadId |-> 1,
   targetDir |-> <<>>,
   useResume |-> FALSE,
   uploadedFiles |-> {},
   createdDirectories |-> {},
   totalFiles |-> 0,
   completedFiles |-> 0,
   failedFiles |-> 0,
   progressDisplay |-> NoProgressDisplay,
   forceUpload |-> FALSE,
   uploadState |-> EmptyUploadState,
   cache |-> EmptyMap,
   cacheLoads |-> 0,
   largeTasks |-> EmptyMap,
   fileContent |-> content,
   stateFile |-> NoFile,
   cacheFile |-> NoFile,
   resumeStates |-> EmptyMap,
   remote |-> [p \in DOMAIN content |-> 0],
   runPc |-> "idle",
   runEntry |-> "none",
   allFiles |-> <<>>,
   filesToUpload |-> <<>>,
   scanIndex |-> 0,
   preCreateDirs |-> <<>>,
   runOptions |-> [force |-> FALSE, cores |-> 1, target |-> <<"/">>, resume |-> FALSE],
   batch |-> <<>>,
   started |-> FALSE,
   apiCalls |-> 0,
   dispatchLog |-> <<>>,
   settledCount |-> 0,
   completeCalls |-> 0,
   errorLog |-> 0,
   runs |-> 0,
   runForced |-> FALSE,
   runExit |-> "none",
   recordCalls |-> 0,
   saveCalls |-> 0,
   runOk |-> <<>>,
   treeAtRun |-> <<>>,
   edits |-> 0,
   foldersCreated |-> {},
   mkdirCalls |-> 0,
   uploadCalls |-> 0,
   syncCliStatus |-> "unchecked",
   jobs |-> {},
   cronJobs |-> EmptyMap,
   daemons |-> EmptyMap,
   backups |-> {},
   signalHandlers |-> <<>>,
   keepAliveTimers |-> 0,
   processExited |-> "no",
   firings |-> 0,
   hashCall |-> NoHashCall,
   scanCall |-> NoScanCall,
   cancelInfo |-> [calls |-> 0, live |-> FALSE, restarted |-> FALSE],
   cliCall |-> NoCliCall,
   resumeCall |-> NoResumeCall,
   restore |-> NoRestore]

\* The variables hold the state s.
InitAs(s) ==
  /\ pendingFiles = s.pendingFiles
  /\ activeUploads = s.activeUploads
  /\ handler = s.handler
  /\ maxConcurrency = s.maxConcurrency
  /\ completionCallback = s.completionCallback
  /\ checkInterval = s.checkInterval
  /\ leakedTimers = s.leakedTimers
  /\ handlers = s.handlers
  /\ nextUploadId = s.nextUploadId
  /\ targetDir = s.targetDir
  /\ useResume = s.useResume
  /\ uploadedFiles = s.uploadedFiles
  /\ createdDirectories = s.createdDirectories
  /\ totalFiles = s.totalFiles
  /\ completedFiles = s.completedFiles
  /\ failedFiles = s.failedFiles
  /\ progressDisplay = s.progressDisplay
  /\ forceUpload = s.forceUpload
  /\ uploadState = s.uploadState
  /\ cache = s.cache
  /\ cacheLoads = s.cacheLoads
  /\ largeTasks = s.largeTasks
  /\ fileContent = s.fileContent
  /\ stateFile = s.stateFile
  /\ cacheFile = s.cacheFile
  /\ resumeStates = s.resumeStates
  /\ remote = s.remote
  /\ runPc = s.runPc
  /\ runEntry = s.runEntry
  /\ allFiles = s.allFiles
  /\ filesToUpload = s.filesToUpload
  /\ scanIndex = s.scanIndex
  /\ preCreateDirs = s.preCreateDirs
  /\ runOptions = s.runOptions
  /\ batch = s.batch
  /\ started = s.started
  /\ apiCalls = s.apiCalls
  /\ dispatchLog = s.dispatchLog
  /\ settledCount = s.settledCount
  /\ completeCalls = s.completeCalls
  /\ errorLog = s.errorLog
  /\ runs = s.runs
  /\ runForced = s.runForced
  /\ runExit = s.runExit
  /\ recordCalls = s.recordCalls
  /\ saveCalls = s.saveCalls
  /\ runOk = s.runOk
  /\ treeAtRun = s.treeAtRun
  /\ edits = s.edits
  /\ foldersCreated = s.foldersCreated
  /\ mkdirCalls = s.mkdirCalls
  /\ uploadCalls = s.uploadCalls
  /\ syncCliStatus = s.syncCliStatus
  /\ jobs = s.jobs
  /\ cronJobs = s.cronJobs
  /\ daemons = s.daemons
  /\ backups = s.backups
  /\ signalHandlers = s.signalHandlers
  /\ keepAliveTimers = s.keepAliveTimers
  /\ processExited = s.processExited
  /\ firings = s.firings
  /\ hashCall = s.hashCall
  /\ scanCall = s.scanCall
  /\ cancelInfo = s.cancelInfo
  /\ cliCall = s.cliCall
  /\ resumeCall = s.resumeCall
  /\ restore = s.restore

(***************************************************************************)
(* The queue on its own, driven as the queue tests drive it: one           *)
(* initFileQueue with a mock handler, setFileQueue, one startFileQueue.    *)
(***************************************************************************)
QInit ==
  \E mc \in 0..MaxConcurrencyBound :
    InitAs(initFileQueue(ModuleInit(EmptyMap), mc, "mock"))

Settled == {"resolved", "failed", "rejected"}

SetQueue ==
  /\ ~started
  /\ \E files \in BoundedSeq(QueueFiles, MaxBatch) : Commit(setFileQueue(St, files))

Start ==
  /\ ~started
  /\ \E onComplete \in {"null", "mock"} : Commit(startFileQueue(St, onComplete))

\* A mock handler's promise settles: resolved with a success result, resolved
\* with a failure result, or rejected.
MockHandlerSettle ==
  \E uploadId \in DOMAIN handlers, outcome \in Settled :
    /\ handlers[uploadId].pc = "running"
    /\ Commit(handlerAt(St, uploadId, outcome))

\* The event loop runs the then/catch callback of a settled handler promise.
HandlerThen ==
  \E uploadId \in DOMAIN handlers :
    /\ handlers[uploadId].pc \in Settled
    /\ Commit(handlerSettled(St, uploadId))

IntervalTick ==
  /\ checkInterval
  /\ Commit(checkIntervalTick(St))

QNext == SetQueue \/ Start \/ MockHandlerSettle \/ HandlerThen \/ IntervalTick

SpecQueue == QInit /\ [][QNext]_vars

\* The event loop runs the callback of every settled promise, and the
\* handlers are taken to settle.
SpecQueueFair == SpecQueue /\ WF_vars(MockHandlerSettle) /\ WF_vars(HandlerThen)

(***************************************************************************)
(* The queue with its exported functions called in any order.              *)
(***************************************************************************)
ApiSetQueue ==
  /\ apiCalls < MaxApiCalls
  /\ \E files \in BoundedSeq(ApiFiles, MaxApiBatch) :
       Commit([setFileQueue(St, files) EXCEPT !.apiCalls = @ + 1])

ApiStart ==
  /\ apiCalls < MaxApiCalls
  /\ \E onComplete \in {"null", "mock"} :
       Commit([startFileQueue(St, onComplete) EXCEPT !.apiCalls = @ + 1])

ApiCancel ==
  /\ apiCalls < MaxApiCalls
  /\ Commit([cancelFileQueue(St) EXCEPT !.apiCalls = @ + 1])

LeakedIntervalTick ==
  /\ leakedTimers > 0
  /\ completeCalls < MaxCompleteCalls
  /\ Commit(leakedIntervalTick(St))

QApiNext ==
  \/ ApiSetQueue \/ ApiStart \/ ApiCancel
  \/ MockHandlerSettle \/ HandlerThen \/ IntervalTick \/ LeakedIntervalTick

SpecQueueApi == QInit /\ [][QApiNext]_vars

(***************************************************************************)
(* uploader.ts: initUploader and startUpload.                              *)
(***************************************************************************)
\* replace(/^\/+|\/+/g, ""): every run of slashes matches one of the two
\* alternatives, so every slash is removed.
removeSlashRuns(str) == SelectSeq(str, LAMBDA c : c # "/")

\* initUploader(concurrentUploads, targetDir, verbosity, options), lines
\* 65-96.  The loadHashCache() of line 95 is not awaited.
initUploader(s, concurrentUploads, target, resume) ==
  LET s1 == [s EXCEPT !.targetDir = removeSlashRuns(trim(target)),
                      !.useResume = resume,
                      !.uploadedFiles = {},
                      !.createdDirectories = {}]
      s2 == initFileQueue(initProgressTracker(s1, 0), concurrentUploads,
                          "handleFileUpload")
  IN IF loadHashCacheStarts(s2) THEN [s2 EXCEPT !.cacheLoads = @ + 1] ELSE s2

\* A call of syncFiles or startUpload begins: the history of the run.
runBegins(s, entry, force) ==
  [s EXCEPT !.runEntry = entry, !.runs = @ + 1, !.runForced = force,
            !.runExit = "none", !.recordCalls = 0, !.saveCalls = 0,
            !.treeAtRun = Append(@, s.fileContent),
            !.foldersCreated = {}, !.mkdirCalls = 0, !.uploadCalls = 0,
            !.syncCliStatus = "unchecked",
            !.allFiles = <<>>, !.filesToUpload = <<>>]

\* lines 228-236: the distinct full directory paths of the files that have a
\* directory, in the order a Set keeps them.
RECURSIVE uniqueDirectories(_, _, _)
uniqueDirectories(s, files, acc) ==
  IF files = <<>> THEN acc
  ELSE LET pathInfo == getPathInfo(s, Head(files))
       IN uniqueDirectories(s, Tail(files),
            IF pathInfo.directory # <<>> /\ pathInfo.fullDirectoryPath \notin Range(acc)
            THEN Append(acc, pathInfo.fullDirectoryPath) ELSE acc)

\* lines 243-254: the progress tracker and the queue are set up, and the
\* queue is started with the resolve function of the promise startUpload
\* awaits.
startUploadQueue(s) ==
  LET s1 == startProgressUpdates(initProgressTracker(s, Len(s.filesToUpload)))
      s2 == setFileQueue(s1, s.filesToUpload)
  IN startFileQueue([s2 EXCEPT !.runPc = "awaitQueue"], "resolve")

\* lines 238-240: the loop over the directories to pre-create.
RECURSIVE startUploadPreCreate(_)
startUploadPreCreate(s) ==
  IF s.preCreateDirs = <<>> THEN startUploadQueue(s)
  ELSE IF directoryKnown(s, Head(s.preCreateDirs))
  THEN startUploadPreCreate([s EXCEPT !.preCreateDirs = Tail(@)])
  ELSE createFolderIssued([s EXCEPT !.runPc = "preCreate"])

\* lines 219-241
startUploadPrepare(s) ==
  IF Len(s.filesToUpload) = 0 THEN runReturns(s, "emptyList")
  ELSE LET s1 == [s EXCEPT !.uploadedFiles = {}, !.createdDirectories = {}]
       IN IF Len(s.filesToUpload) > 1
          THEN startUploadPreCreate(
                 [s1 EXCEPT !.preCreateDirs = uniqueDirectories(s1, s.filesToUpload, <<>>)])
          ELSE startUploadQueue(s1)

\* startUpload(filesToUpload), line 207: the call, up to the await of
\* checkInternxtCLI.
startUpload(s, files) == [s EXCEPT !.filesToUpload = files, !.runPc = "uploadCheckCLI"]

\* lines 208-217: checkInternxtCLI has answered.
startUploadChecked(s, ready) ==
  IF ~ready THEN runReturns(s, "cliNotReady")
  ELSE IF s.targetDir # <<>> /\ ~directoryKnown(s, s.targetDir)
  THEN createFolderIssued([s EXCEPT !.runPc = "ensureTarget"])
  ELSE startUploadPrepare(s)

\* lines 214-217 resumed: internxtCreateFolder(_targetDir) has answered.
startUploadTargetDone(s, success) ==
  startUploadPrepare(directoryCreated(s, s.targetDir, success))

\* lines 238-240 resumed: internxtCreateFolder(dir) has answered.
startUploadPreCreateDone(s, success) ==
  startUploadPreCreate(
    [directoryCreated(s, Head(s.preCreateDirs), success) EXCEPT !.preCreateDirs = Tail(@)])

(***************************************************************************)
(* The steps of a run that any caller of startUpload takes.                *)
(***************************************************************************)
UploadCliChecked ==
  /\ runPc = "uploadCheckCLI"
  /\ \E ready \in BOOLEAN : Commit(startUploadChecked(St, ready))

UploadTargetCreated ==
  /\ runPc = "ensureTarget"
  /\ \E success \in BOOLEAN : Commit(startUploadTargetDone(St, success))

UploadDirPreCreated ==
  /\ runPc = "preCreate"
  /\ \E success \in BOOLEAN : Commit(startUploadPreCreateDone(St, success))

UploadSaved ==
  /\ runPc = "saveState"
  /\ Commit(startUploadReturns(St))

HandlerHashChecked ==
  \E uploadId \in DOMAIN handlers :
    /\ handlers[uploadId].pc = "hashCheck"
    /\ Commit(handlerHashChecked(St, uploadId))

HandlerTargetCreated ==
  \E uploadId \in DOMAIN handlers, success \in BOOLEAN :
    /\ handlers[uploadId].pc = "mkTarget"
    /\ Commit(handlerTargetDirDone(St, uploadId, success))

\* The create-folder that internxtUploadFile issues itself answers.
HandlerUploadFolderCreated ==
  \E uploadId \in DOMAIN handlers, success \in BOOLEAN :
    /\ handlers[uploadId].pc = "uploadMkDir"
    /\ Commit(internxtUploadFolderDone(St, uploadId, success))

HandlerDirCreated ==
  \E uploadId \in DOMAIN handlers, success \in BOOLEAN :
    /\ handlers[uploadId].pc = "mkDir"
    /\ Commit(handlerFileDirDone(St, uploadId, success))

\* internxtUploadFile answers; a service put in its place may also reject.
HandlerUploaded ==
  \E uploadId \in DOMAIN handlers, outcome \in {"success", "failure", "throws"} :
    /\ handlers[uploadId].pc = "upload"
    /\ Commit(handlerUploadDone(St, uploadId, outcome))

\* The un-awaited loadHashCache() of initUploader finishes reading.
CacheLoaded ==
  /\ cacheLoads > 0
  /\ Commit([loadHashCacheDone(St) EXCEPT !.cacheLoads = @ - 1])

HandlerSteps ==
  \/ HandlerHashChecked \/ HandlerTargetCreated \/ HandlerDirCreated
  \/ HandlerUploadFolderCreated \/ HandlerUploaded \/ HandlerThen

(***************************************************************************)
(* startUpload called directly, as the uploader tests call it, after one   *)
(* initFileScanner and initUploader.                                       *)
(***************************************************************************)
SourceFiles == {FileA, FileDB}

TargetInputs == {<<"/">>, <<"B">>}

MaxUploadCalls == 2

\* The FileInfo a caller builds for a file of the source tree.
FileInfoOf(s, path, hasChanged) ==
  [relativePath |-> path, size |-> FileSize(path),
   checksum |-> MD5(s.fileContent[path]), hasChanged |-> hasChanged]

UInit ==
  \E mc \in 1..MaxConcurrencyBound, target \in TargetInputs :
    InitAs(initUploader(initFileScanner(ModuleInit([p \in SourceFiles |-> 1]), FALSE),
                        mc, target, FALSE))

CallStartUpload ==
  /\ runPc = "idle"
  /\ apiCalls < MaxUploadCalls
  /\ \E files \in BoundedSeq({FileInfoOf(St, p, c) :
                                p \in SourceFiles, c \in {"true", "false", "null"}},
                             MaxUploadBatch) :
       Commit([startUpload(runBegins(St, "startUpload", FALSE), files)
                 EXCEPT !.apiCalls = @ + 1])

UNext ==
  \/ CallStartUpload
  \/ UploadCliChecked \/ UploadTargetCreated \/ UploadDirPreCreated \/ UploadSaved
  \/ HandlerSteps
  \/ IntervalTick \/ LeakedIntervalTick

SpecUpload == UInit /\ [][UNext]_vars

\* C5: when the queue's completion callback fires for a batch, the progress
\* counters add up to the number of tasks of the batch.
C5_CountersCoverBatch ==
  runPc = "saveState" => completedFiles + failedFiles = Len(batch)

(***************************************************************************)
(* file-scanner.ts (scanFiles) and file-sync.ts (syncFiles).               *)
(***************************************************************************)
\* The files scanDirectory meets, in the order it meets them: readdirSync
\* of the source directory, the sub-directory d walked in place.
SourceTree == <<FileA, FileDB>>

\* syncFiles, lines 79-83: scanFiles has returned.
syncFilesScanned(s) ==
  IF Len(s.filesToUpload) = 0
  THEN runReturns(s, "nothingToUpload")
  ELSE startUpload(s, s.filesToUpload)

\* determineFilesToUpload, lines 99-116: the loop.  With force every file
\* is pushed without the cache being asked; otherwise the loop awaits
\* hashCacheHasChanged for the file.
RECURSIVE determineLoop(_)
determineLoop(s) ==
  IF s.scanIndex > Len(s.allFiles) THEN syncFilesScanned(s)
  ELSE IF s.forceUpload
  THEN determineLoop(
         [s EXCEPT !.allFiles[s.scanIndex].hasChanged = "true",
                   !.filesToUpload =
                      Append(@, [s.allFiles[s.scanIndex] EXCEPT !.hasChanged = "true"]),
                   !.scanIndex = @ + 1])
  ELSE [s EXCEPT !.runPc = "determine"]

\* determineFilesToUpload, lines 108-113: hashCacheHasChanged has answered.
determineChecked(s) ==
  LET file == s.allFiles[s.scanIndex]
      hasChanged == hashChanged(s, file.relativePath)
      marked == [file EXCEPT !.hasChanged = IF hasChanged THEN "true" ELSE "false"]
      s1 == hashCacheHasChanged(s, file.relativePath)
  IN determineLoop(
       [s1 EXCEPT !.allFiles[s.scanIndex] = marked,
                  !.filesToUpload = IF hasChanged THEN Append(@, marked) ELSE @,
                  !.scanIndex = @ + 1])

\* determineFilesToUpload, line 97 resumed: the awaited loadHashCache has
\* read the cache file.
determineLoaded(s) == determineLoop([loadHashCacheDone(s) EXCEPT !.scanIndex = 1])

\* determineFilesToUpload, lines 94-97: loadHashCache is called and awaited.
determineFilesToUpload(s) ==
  IF loadHashCacheStarts(s)
  THEN [s EXCEPT !.runPc = "loadCache", !.filesToUpload = <<>>]
  ELSE determineLoop([s EXCEPT !.scanIndex = 1, !.filesToUpload = <<>>])

\* scanDirectory, lines 58-83: the loop over the entries, up to the await of
\* calculateChecksum for the next file.
scanLoop(s) ==
  IF s.scanIndex > Len(SourceTree) THEN determineFilesToUpload(s)
  ELSE [s EXCEPT !.runPc = "scan"]

\* scanDirectory, lines 73-81: calculateChecksum has read the file.
scanChecksummed(s) ==
  LET path == SourceTree[s.scanIndex]
      file == [relativePath |-> path, size |-> FileSize(path),
               checksum |-> MD5(s.fileContent[path]), hasChanged |-> "null"]
  IN scanLoop([s EXCEPT !.allFiles = Append(@, file), !.scanIndex = @ + 1])

\* scanFiles, lines 123-126: loadScannerState has read the state file.
scanFilesLoaded(s) == scanLoop([loadScannerState(s) EXCEPT !.scanIndex = 1, !.allFiles = <<>>])

\* syncFiles(sourceDir, options), lines 27-44: the call, up to the await of
\* checkInternxtCLI.
syncFiles(s, options) == [s EXCEPT !.runOptions = options, !.runPc = "checkCLI"]

syncFilesChecked_IgnoresStatus(s, cliStatus) ==
  LET options == s.runOptions
      s1 == initFileScanner([s EXCEPT !.syncCliStatus = cliStatus], options.force)
      s2 == initUploader(s1, options.cores, options.target, options.resume)
  IN [s2 EXCEPT !.runPc = "loadState"]

\* syncFiles, lines 46-77 and 84-88: checkInternxtCLI has answered.  A CLI
\* that is not ready makes syncFiles throw; the catch logs and throws again.
\* getOptimalConcurrency(options.cores) is a positive number of uploads; the
\* model takes it as the input cores itself.
syncFilesChecked(s, cliStatus) ==
  LET s0 == [s EXCEPT !.syncCliStatus = cliStatus]
  IN IF cliStatus # "ready" THEN runReturns(s0, "cliFailure")
     ELSE LET options == s.runOptions
              s1 == initFileScanner(s0, options.force)
              s2 == initUploader(s1, options.cores, options.target, options.resume)
          IN [s2 EXCEPT !.runPc = "loadState"]

(***************************************************************************)
(* Backup runs: syncFiles called again and again, in one process (the      *)
(* daemon) or in a new process each time (the command line), on a source   *)
(* tree that is edited between the runs.                                   *)
(***************************************************************************)
BInit == InitAs(ModuleInit([p \in SourceFiles |-> 1]))

CallSyncFiles ==
  /\ runPc = "idle"
  /\ runs < MaxRuns
  /\ \E force \in BOOLEAN, cores \in 1..MaxConcurrencyBound, target \in TargetInputs :
       Commit(syncFiles(runBegins(St, "syncFiles", force),
                        [force |-> force, cores |-> cores, target |-> target,
                         resume |-> FALSE]))

SyncCliChecked ==
  /\ runPc = "checkCLI"
  /\ \E cliStatus \in {"ready", "notInstalled", "notAuthenticated"} :
       Commit(syncFilesChecked(St, cliStatus))

ScanStateLoaded ==
  /\ runPc = "loadState"
  /\ Commit(scanFilesLoaded(St))

ScanChecksummed ==
  /\ runPc = "scan"
  /\ Commit(scanChecksummed(St))

DetermineLoaded ==
  /\ runPc = "loadCache"
  /\ Commit(determineLoaded(St))

DetermineChecked ==
  /\ runPc = "determine"
  /\ Commit(determineChecked(St))

\* A file of the source tree is given another content while no run is in
\* progress.
LocalEdit ==
  /\ runPc = "idle"
  /\ edits < MaxEdits
  /\ \E path \in DOMAIN fileContent, content \in Contents :
       /\ content # fileContent[path]
       /\ Commit([St EXCEPT !.fileContent[path] = content, !.edits = @ + 1])

\* The process ends and the next run is made by a new one: the modules'
\* variables start from their initial values, the timers are gone, the
\* files and the drive stay.
processRestart(s) ==
  [s EXCEPT !.pendingFiles = <<>>, !.activeUploads = {}, !.handler = "null",
            !.maxConcurrency = 1, !.completionCallback = "null",
            !.checkInterval = FALSE, !.leakedTimers = 0, !.handlers = EmptyMap,
            !.targetDir = <<>>, !.useResume = FALSE, !.uploadedFiles = {},
            !.createdDirectories = {}, !.totalFiles = 0, !.completedFiles = 0,
            !.failedFiles = 0, !.progressDisplay = NoProgressDisplay,
            !.forceUpload = FALSE,
            !.uploadState = EmptyUploadState, !.cache = EmptyMap,
            !.cacheLoads = 0, !.largeTasks = EmptyMap,
            !.jobs = {}, !.cronJobs = EmptyMap, !.daemons = EmptyMap,
            !.backups = {}, !.signalHandlers = <<>>, !.keepAliveTimers = 0,
            !.processExited = "no", !.restore = NoRestore]

ProcessRestart ==
  /\ runPc = "idle"
  /\ runs >= 1
  /\ runs < MaxRuns
  /\ Commit(processRestart(St))

BNext ==
  \/ CallSyncFiles \/ SyncCliChecked \/ ScanStateLoaded \/ ScanChecksummed
  \/ DetermineLoaded \/ DetermineChecked
  \/ UploadCliChecked \/ UploadTargetCreated \/ UploadDirPreCreated \/ UploadSaved
  \/ HandlerTargetCreated \/ HandlerDirCreated \/ HandlerUploadFolderCreated
  \/ HandlerUploaded \/ HandlerThen
  \/ CacheLoaded \/ IntervalTick \/ LeakedIntervalTick
  \/ LocalEdit \/ ProcessRestart

SpecBackup == BInit /\ [][BNext]_vars

(***************************************************************************)
(* syncFiles called a few times in one process on a tree nobody edits, as  *)
(* file-sync.test.ts calls it.                                             *)
(***************************************************************************)
MaxSyncCalls == 2

SyncCall ==
  /\ runPc = "idle"
  /\ runs < MaxSyncCalls
  /\ \E force \in BOOLEAN, cores \in 1..MaxConcurrencyBound, target \in TargetInputs :
       Commit(syncFiles(runBegins(St, "syncFiles", force),
                        [force |-> force, cores |-> cores, target |-> target,
                         resume |-> FALSE]))

SNext ==
  \/ SyncCall \/ SyncCliChecked \/ ScanStateLoaded \/ ScanChecksummed
  \/ DetermineLoaded \/ DetermineChecked
  \/ UploadCliChecked \/ UploadTargetCreated \/ UploadDirPreCreated \/ UploadSaved
  \/ HandlerTargetCreated \/ HandlerDirCreated \/ HandlerUploadFolderCreated
  \/ HandlerUploaded \/ HandlerThen
  \/ CacheLoaded \/ IntervalTick \/ LeakedIntervalTick

SpecSync == BInit /\ [][SNext]_vars

\* The paths of a list of FileInfo.
PathsOf(files) == {files[i].relativePath : i \in 1..Len(files)}

\* The run has just decided its filesToUpload: startUpload has been called
\* with it and has uploaded nothing yet, or syncFiles has returned because
\* it is empty.
Determined ==
  /\ runEntry = "syncFiles"
  /\ \/ runPc = "uploadCheckCLI"
     \/ runPc = "idle" /\ runExit = "nothingToUpload"

\* C6: whichever way a backup run ends, it has called recordScannerCompletion
\* and saveScannerState before it returns or throws.
C6_RecordAndSaveOnEveryExit ==
  (runEntry = "syncFiles" /\ runPc = "idle" /\ runExit # "none")
    => (recordCalls >= 1 /\ saveCalls >= 1)

\* C7: in a run that is not forced a file is in filesToUpload if and only if
\* its MD5 differs from the MD5 of the content last uploaded successfully
\* for its path, a file never uploaded counting as differing.
C7_ChangedSinceLastUpload ==
  (Determined /\ ~runForced) =>
     \A path \in SourceFiles :
        path \in PathsOf(filesToUpload)
          <=> (remote[path] = 0 \/ MD5(treeAtRun[runs][path]) # MD5(remote[path]))

\* C8: of two consecutive successful runs, the second not forced, the second
\* has no file in filesToUpload whose content is the same in both runs.
C8_UnchangedNotUploadedAgain ==
  (runs >= 2 /\ runPc = "idle" /\ Len(runOk) = runs
     /\ runOk[runs - 1] /\ runExit \in {"normal", "nothingToUpload"}
     /\ (runExit = "normal" => runOk[runs]) /\ ~runForced) =>
     \A path \in PathsOf(filesToUpload) :
        treeAtRun[runs - 1][path] # treeAtRun[runs][path]

\* C9: every file the current run has uploaded successfully has an entry in
\* the hash cache, equal to the MD5 of the bytes that were uploaded.
C9_CacheHoldsUploadedDigest ==
  (runEntry = "syncFiles" /\ runPc # "idle") =>
     \A path \in uploadedFiles :
        path \in DOMAIN cache /\ cache[path] = MD5(remote[path])

(***************************************************************************)
(* uploadLargeFile called directly, one call after the other, as the       *)
(* resumable uploader's tests call it.  The state files are written and    *)
(* deleted without error.                                                  *)
(***************************************************************************)
ResumableFiles == {FileBig, FileEdge}

MaxLargeCalls == 2

\* The key of the uploadLargeFile call made directly.
ApiCall == 0

RInit == InitAs(ModuleInit([p \in ResumableFiles |-> 1]))

CallUploadLargeFile ==
  /\ apiCalls < MaxLargeCalls
  /\ ApiCall \in DOMAIN largeTasks => largeTasks[ApiCall].pc = "returned"
  /\ \E filePath \in ResumableFiles :
       Commit([uploadLargeFile(St, ApiCall, filePath) EXCEPT !.apiCalls = @ + 1])

LargePlainDone ==
  \E k \in DOMAIN largeTasks, success \in BOOLEAN :
    /\ largeTasks[k].pc = "plainUpload"
    /\ Commit(largePlainDone(St, k, success))

LargeChecksumDone ==
  \E k \in DOMAIN largeTasks, readable \in BOOLEAN :
    /\ largeTasks[k].pc = "checksum"
    /\ Commit(largeChecksumDone(St, k, readable))

LargeStateRead ==
  \E k \in DOMAIN largeTasks :
    /\ largeTasks[k].pc = "loadState"
    /\ Commit(largeLoadStateRead(St, k))

LargeStateChecked ==
  \E k \in DOMAIN largeTasks :
    /\ largeTasks[k].pc = "loadChecksum"
    /\ Commit(largeLoadStateChecked(St, k))

LargeAttemptDone ==
  \E k \in DOMAIN largeTasks, success \in BOOLEAN :
    /\ largeTasks[k].pc = "attempt"
    /\ Commit(largeAttemptDone(St, k, success))

LargeDelayDone ==
  \E k \in DOMAIN largeTasks :
    /\ largeTasks[k].pc = "delay"
    /\ Commit(largeDelayDone(St, k))

CallCanResumeUpload ==
  /\ resumeCall.pc \in {"idle", "returned"}
  /\ \E filePath \in ResumableFiles : Commit(canResumeUpload(St, filePath))

CanResumeStateRead ==
  /\ resumeCall.pc = "read"
  /\ Commit(canResumeStateRead(St))

CanResumeChecked ==
  /\ resumeCall.pc = "checksum"
  /\ Commit(canResumeChecked(St))

RNext ==
  \/ CallUploadLargeFile \/ LargePlainDone \/ LargeChecksumDone
  \/ LargeStateRead \/ LargeStateChecked \/ LargeAttemptDone \/ LargeDelayDone
  \/ LocalEdit
  \/ CallCanResumeUpload \/ CanResumeStateRead \/ CanResumeChecked

SpecResumable == RInit /\ [][RNext]_vars

\* The call under key k returns in this step.
LargeReturns(k) ==
  /\ k \in DOMAIN largeTasks'
  /\ largeTasks'[k].pc = "returned"
  /\ k \in DOMAIN largeTasks => largeTasks[k].pc # "returned"

SpecResumableFair ==
  /\ SpecResumable
  /\ WF_vars(LargePlainDone) /\ WF_vars(LargeChecksumDone)
  /\ WF_vars(LargeStateRead) /\ WF_vars(LargeStateChecked)
  /\ WF_vars(LargeAttemptDone) /\ WF_vars(LargeDelayDone)

\* C11: while an upload of a file above the threshold waits for its retry
\* delay or makes a further attempt, that is after every failed attempt, a
\* state file of the file exists.
C11_StateSavedOnEveryFailure ==
  \A k \in DOMAIN largeTasks :
    LET task == largeTasks[k]
    IN (task.pc = "delay" \/ (task.pc = "attempt" /\ task.retryCount >= 1))
         => task.filePath \in DOMAIN resumeStates

\* The call under key k has returned.
LargeReturned(k) == k \in DOMAIN largeTasks /\ largeTasks[k].pc = "returned"

\* C12: a call of uploadLargeFile on a file above the threshold starts the
\* streamed upload at most 3 times, returns at the first success, returns
\* the failure of exhausted retries only after exactly 3 failed attempts,
\* and always returns a result.
C12_AtMostThreeAttempts ==
  /\ [](\A k \in DOMAIN largeTasks :
          LET task == largeTasks[k]
          IN shouldUseResumable(task.fileSize) =>
               /\ task.attempts <= 3
               /\ (task.pc = "returned" /\ task.result.success)
                    => task.attempts = task.retryCount + 1
               /\ (task.pc = "returned" /\ task.result.error = "attempts")
                    => (task.retryCount = 3 /\ task.attempts = 3))
  /\ (ApiCall \in DOMAIN largeTasks /\ ~LargeReturned(ApiCall)) ~> LargeReturned(ApiCall)

\* A call has returned the failure of exhausted retries after 3 attempts
\* separated by 2 delays.
C12_Witness ==
  /\ LargeReturned(ApiCall)
  /\ largeTasks[ApiCall].result.error = "attempts"
  /\ largeTasks[ApiCall].attempts = 3
  /\ Len(largeTasks[ApiCall].delays) = 2

C28_ThreeRetriesWithBackoff ==
  \A k \in DOMAIN largeTasks :
    (largeTasks[k].pc = "returned" /\ largeTasks[k].result.error = "attempts") =>
      /\ largeTasks[k].delays = <<2000, 4000, 8000>>
      /\ largeTasks[k].filePath \in DOMAIN resumeStates

C14_CliCheckedFirst ==
  runEntry = "syncFiles" =>
    /\ syncCliStatus = "unchecked" =>
         /\ runPc = "checkCLI"
         /\ allFiles = <<>> /\ handlers = EmptyMap
         /\ mkdirCalls = 0 /\ uploadCalls = 0
    /\ syncCliStatus \in {"notInstalled", "notAuthenticated"} =>
         /\ runPc = "idle" /\ runExit = "cliFailure"
         /\ allFiles = <<>> /\ handlers = EmptyMap
         /\ mkdirCalls = 0 /\ uploadCalls = 0

\* A second run in the same process, after a run that uploaded, has ended
\* on a CLI that is not authenticated.
C14_Witness ==
  /\ runEntry = "syncFiles" /\ runs = 2
  /\ syncCliStatus = "notAuthenticated"
  /\ runExit = "cliFailure"
  /\ uploadedFiles # {}

\* The remote folder the file of a handler invocation is uploaded into.
UploadFolderOf(invocation) ==
  remoteFolderOf(getPathInfo(St, invocation.file).targetPath)

\* C15: while an upload-file of a handler is in progress, a create-folder of
\* the remote folder it uploads into has succeeded in the same run.
C15_FolderCreatedBeforeUpload ==
  \A uploadId \in DOMAIN handlers :
    (handlers[uploadId].pc = "upload" /\ UploadFolderOf(handlers[uploadId]) # <<>>)
      => UploadFolderOf(handlers[uploadId]) \in foldersCreated

\* The remote directories the batch of the run implies: those of its files
\* that lie in a directory.
ImpliedDirectories ==
  {getPathInfo(St, filesToUpload[i]).fullDirectoryPath :
     i \in {j \in 1..Len(filesToUpload) :
              getPathInfo(St, filesToUpload[j]).directory # <<>>}}

\* C16: the create-folder invocations of a run are at most the distinct
\* remote directories its batch implies, plus one for the target root.
C16_CreateFolderCallsBounded ==
  mkdirCalls <= Cardinality(ImpliedDirectories) + 1

\* ---------------------------------------------------------------------------
\* scheduler.ts: the backup daemon.
\*
\* A daemon is one call of startBackupDaemon (the functional scheduler) or of
\* BackupScheduler.startDaemon (the class).  It is identified by the number of
\* its call; its cron job has the same number (the jobId is made of the source
\* directory and Date.now(), one per call).  A cron expression is the list of
\* its blank-separated fields.
\* ---------------------------------------------------------------------------

MaxDaemons == 2
MaxFirings == 3

CronExpressions == {<<"0", "2", "*", "*", "*">>, <<"invalid-cron">>}

DaemonKinds == {"functional", "class"}

\* new Cron(expression, {maxRuns: 1}) throws unless the pattern has the five
\* fields of a cron pattern.
validateCronExpression(expression) == Len(expression) = 5

runBackupOnceCalled(s, d, origin) ==
  LET n == s.daemons[d].started + 1 IN
  [s EXCEPT !.daemons[d].started = n,
            !.backups = @ \cup {[daemon |-> d, origin |-> origin, n |-> n]}]

startBackupDaemon_NoValidation(s, d, kind, schedule) ==
  LET task == [kind |-> kind, valid |-> validateCronExpression(schedule),
               pc |-> "initialBackup", started |-> 0, signalled |-> FALSE,
               jobs |-> {}, cronFailures |-> 0]
  IN runBackupOnceCalled([s EXCEPT !.daemons = @ @@ (d :> task)], d, "initial")

keepDaemonAlive(s, d) ==
  [s EXCEPT !.signalHandlers = Append(@, d),
            !.keepAliveTimers = @ + 1,
            !.daemons[d].pc = "keepAlive"]

scheduleJob(s, d) ==
  LET s1 == [s EXCEPT !.cronJobs = @ @@ (d :> [stopped |-> FALSE, busy |-> FALSE])]
  IN IF s.daemons[d].kind = "class"
       THEN [s1 EXCEPT !.daemons[d].jobs = @ \cup {d}]
       ELSE [s1 EXCEPT !.jobs = @ \cup {d}]

startBackupDaemon_SchedulesFirst(s, d, kind, schedule) ==
  LET valid == validateCronExpression(schedule)
      task == [kind |-> kind, valid |-> valid,
               pc |-> IF valid THEN "initialBackup" ELSE "threw",
               started |-> 0, signalled |-> FALSE, jobs |-> {}, cronFailures |-> 0]
      s1 == [s EXCEPT !.daemons = @ @@ (d :> task)]
  IN IF valid THEN scheduleJob(runBackupOnceCalled(s1, d, "initial"), d) ELSE s1

\* startBackupDaemon up to its first await: the expression is validated, then
\* the initial backup is started.
startBackupDaemon(s, d, kind, schedule) ==
  LET valid == validateCronExpression(schedule)
      task == [kind |-> kind, valid |-> valid,
               pc |-> IF valid THEN "initialBackup" ELSE "threw",
               started |-> 0, signalled |-> FALSE, jobs |-> {}, cronFailures |-> 0]
      s1 == [s EXCEPT !.daemons = @ @@ (d :> task)]
  IN IF valid THEN runBackupOnceCalled(s1, d, "initial") ELSE s1

startBackupDaemonResumed_SchedulesAnyway(s, d, success) ==
  LET s1 == [s EXCEPT !.backups = {b \in @ : b.daemon # d}] IN
  IF ~success
    THEN [scheduleJob(s1, d) EXCEPT !.daemons[d].pc = "threw"]
    ELSE keepDaemonAlive(scheduleJob(s1, d), d)

\* startBackupDaemon after the initial backup: a rejection leaves the call; a
\* resolution creates the cron job, records it and enters keepDaemonAlive.
startBackupDaemonResumed(s, d, success) ==
  LET s1 == [s EXCEPT !.backups = {b \in @ : b.daemon # d}] IN
  IF ~success
    THEN [s1 EXCEPT !.daemons[d].pc = "threw"]
    ELSE keepDaemonAlive(scheduleJob(s1, d), d)

cronFires_Unprotected(s, j) ==
  runBackupOnceCalled([s EXCEPT !.firings = @ + 1, !.cronJobs[j].busy = TRUE],
                      j, "cron")

\* One firing of the job's timer.  The job was made with protect: true, so a
\* firing while its callback has not settled is dropped.
cronFires(s, j) ==
  LET s1 == [s EXCEPT !.firings = @ + 1] IN
  IF s.cronJobs[j].busy
    THEN s1
    ELSE runBackupOnceCalled([s1 EXCEPT !.cronJobs[j].busy = TRUE], j, "cron")

cronCallbackDone_FailureStopsJob(s, b, success) ==
  IF success
    THEN [s EXCEPT !.backups = @ \ {b}, !.cronJobs[b.daemon].busy = FALSE]
    ELSE [s EXCEPT !.backups = @ \ {b}, !.cronJobs[b.daemon].stopped = TRUE,
                   !.daemons[b.daemon].cronFailures = @ + 1]

\* The end of the job's callback: runBackupOnce has resolved, or its
\* rejection is caught and logged.  Either way the callback's promise
\* resolves.
cronCallbackDone(s, b, success) ==
  [s EXCEPT !.backups = @ \ {b}, !.cronJobs[b.daemon].busy = FALSE,
            !.daemons[b.daemon].cronFailures = IF success THEN @ ELSE @ + 1]

stopJobs(s, js) ==
  [s EXCEPT !.cronJobs = [j \in DOMAIN @ |->
                            IF j \in js THEN [@[j] EXCEPT !.stopped = TRUE] ELSE @[j]]]

stopAllBackupJobs(s) == [stopJobs(s, s.jobs) EXCEPT !.jobs = {}]

stopAll(s, d) == [stopJobs(s, s.daemons[d].jobs) EXCEPT !.daemons[d].jobs = {}]

Resolved(task) ==
  [task EXCEPT !.pc = IF @ = "keepAlive" THEN "resolved" ELSE @,
               !.signalled = TRUE]

\* The shutdown handler of daemon d.
shutdown(s, d) ==
  IF s.daemons[d].kind = "class"
    THEN [stopAll(s, d) EXCEPT !.daemons[d] = Resolved(@),
                               !.processExited = "engine"]
    ELSE [stopAllBackupJobs(s) EXCEPT !.daemons[d] = Resolved(@)]

\* The handlers of a signal run in the order of their registration, until one
\* of them ends the process.
RECURSIVE emitSignal(_, _)
emitSignal(s, hs) ==
  IF hs = <<>> \/ s.processExited # "no"
    THEN s
    ELSE emitSignal(shutdown(s, Head(hs)), Tail(hs))

\* SIGINT or SIGTERM.  Without a handler the runtime ends the process; with
\* handlers, the calls whose promise was resolved go on once the handlers are
\* done, if the process is still there.
signalArrives(s) ==
  IF s.signalHandlers = <<>>
    THEN [s EXCEPT !.processExited = "signal"]
    ELSE LET s1 == emitSignal(s, s.signalHandlers) IN
         IF s1.processExited # "no"
           THEN s1
           ELSE [s1 EXCEPT !.daemons = [d \in DOMAIN @ |->
                   [@[d] EXCEPT !.pc = IF @ = "resolved" THEN "returned" ELSE @]]]

\* ---------------------------------------------------------------------------
\* The daemon specification.
\* ---------------------------------------------------------------------------

DInit == InitAs(ModuleInit([p \in ResumableFiles |-> 1]))

NextDaemon == Cardinality(DOMAIN daemons) + 1

CallStartBackupDaemon ==
  /\ processExited = "no"
  /\ NextDaemon <= MaxDaemons
  /\ \E kind \in DaemonKinds, schedule \in CronExpressions :
       Commit(startBackupDaemon(St, NextDaemon, kind, schedule))

InitialBackupSettles ==
  /\ processExited = "no"
  /\ \E d \in DOMAIN daemons, success \in BOOLEAN :
       /\ daemons[d].pc = "initialBackup"
       /\ Commit(startBackupDaemonResumed(St, d, success))

CronFires ==
  /\ processExited = "no"
  /\ firings < MaxFirings
  /\ \E j \in DOMAIN cronJobs :
       /\ ~cronJobs[j].stopped
       /\ Commit(cronFires(St, j))

ScheduledBackupSettles ==
  /\ processExited = "no"
  /\ \E b \in backups, success \in BOOLEAN :
       /\ b.origin = "cron"
       /\ Commit(cronCallbackDone(St, b, success))

SignalArrives ==
  /\ processExited = "no"
  /\ Commit(signalArrives(St))

CallStopAllBackupJobs ==
  /\ processExited = "no"
  /\ Commit(stopAllBackupJobs(St))

DNext ==
  \/ CallStartBackupDaemon \/ InitialBackupSettles \/ CronFires
  \/ ScheduledBackupSettles \/ SignalArrives \/ CallStopAllBackupJobs

SpecDaemon == DInit /\ [][DNext]_vars

BackupsOf(d) == {b \in backups : b.daemon = d}

\* C17: a daemon never has two backup runs in progress: a firing of its cron
\* job while the backup of an earlier firing has not completed starts nothing
\* and leaves nothing behind that would start a backup later (a backup starts
\* only in the step of the daemon's call or of a firing).
C17_NoOverlappingBackups ==
  /\ [](\A d \in DOMAIN daemons : Cardinality(BackupsOf(d)) <= 1)
  /\ [][/\ \A d \in DOMAIN cronJobs :
              (cronJobs[d].busy /\ firings' = firings + 1) =>
                /\ BackupsOf(d)' = BackupsOf(d)
                /\ daemons'[d].started = daemons[d].started
        /\ \A d \in DOMAIN daemons :
              daemons'[d].started > daemons[d].started => firings' = firings + 1]_vars

C17_Witness ==
  \E d \in DOMAIN daemons :
    /\ firings = 2
    /\ daemons[d].started = 2
    /\ BackupsOf(d) = {[daemon |-> d, origin |-> "cron", n |-> 2]}

\* C18: a daemon started with a valid expression starts exactly one backup at
\* once, and its cron job exists only after that backup has finished: while
\* the initial backup runs the daemon has no job, so no firing can start a
\* backup; the job is there once the daemon waits for a signal.
C18_InitialBackupBeforeSchedule ==
  \A d \in DOMAIN daemons :
    /\ daemons[d].pc = "initialBackup" =>
         /\ BackupsOf(d) = {[daemon |-> d, origin |-> "initial", n |-> 1]}
         /\ daemons[d].started = 1
         /\ d \notin DOMAIN cronJobs
    /\ daemons[d].valid => daemons[d].started >= 1
    /\ d \in DOMAIN cronJobs =>
         /\ daemons[d].pc # "initialBackup"
         /\ \A b \in BackupsOf(d) : b.origin = "cron"
    /\ daemons[d].pc = "keepAlive" => d \in DOMAIN cronJobs

C18_Witness ==
  \E d \in DOMAIN daemons :
    /\ daemons[d].pc = "keepAlive"
    /\ daemons[d].started = 2
    /\ d \in jobs

\* C19: after SIGINT or SIGTERM has reached a running daemon, its cron job is
\* stopped and no longer recorded, the call of the daemon has returned, and
\* the process has not been ended by the scheduler.
C19_SignalStopsAndReturns ==
  /\ processExited # "engine"
  /\ \A d \in DOMAIN daemons :
       daemons[d].signalled =>
         /\ daemons[d].pc = "returned"
         /\ cronJobs[d].stopped
         /\ d \notin jobs
         /\ d \notin daemons[d].jobs

\* C20: a daemon started with an invalid cron expression has thrown, and has
\* started no backup, made no cron job and registered no signal handler.
C20_InvalidCronDoesNothing ==
  \A d \in DOMAIN daemons :
    ~daemons[d].valid =>
      /\ daemons[d].pc = "threw"
      /\ daemons[d].started = 0
      /\ BackupsOf(d) = {}
      /\ d \notin DOMAIN cronJobs
      /\ \A i \in DOMAIN signalHandlers : signalHandlers[i] # d
      /\ keepAliveTimers <= Cardinality({e \in DOMAIN daemons : daemons[e].valid})

C20_Witness ==
  /\ \E d \in DOMAIN daemons : ~daemons[d].valid /\ daemons[d].pc = "threw"
  /\ Cardinality(DOMAIN daemons) = 2
  /\ \E e \in DOMAIN daemons : daemons[e].pc = "keepAlive"

\* C36: when the backup of a scheduled firing fails, the error is caught in
\* the firing's callback: the call of the daemon stays where it is, the
\* process goes on, the cron job stays recorded and running and is free
\* for its next firing; and a firing of a job that is free starts a backup,
\* whatever failed before.
C36_ScheduledFailureIsCaught ==
  [][/\ \A d \in DOMAIN daemons :
          daemons'[d].cronFailures > daemons[d].cronFailures =>
            /\ daemons'[d].pc = daemons[d].pc
            /\ processExited' = "no"
            /\ cronJobs'[d] = [cronJobs[d] EXCEPT !.busy = FALSE]
            /\ jobs' = jobs
            /\ daemons'[d].jobs = daemons[d].jobs
     /\ (/\ firings' = firings + 1
         /\ \A j \in DOMAIN cronJobs : ~cronJobs[j].stopped => ~cronJobs[j].busy)
        => \E j \in DOMAIN cronJobs :
             /\ daemons'[j].started = daemons[j].started + 1
             /\ BackupsOf(j)' = {[daemon |-> j, origin |-> "cron",
                                  n |-> daemons'[j].started]}]_vars

\* The second firing of a daemon's job has started a backup after the backup
\* of the first firing failed.
C36_Witness ==
  \E d \in DOMAIN daemons :
    /\ daemons[d].cronFailures = 1
    /\ daemons[d].pc = "keepAlive"
    /\ firings = 2
    /\ BackupsOf(d) = {[daemon |-> d, origin |-> "cron", n |-> 3]}

\* C37: a daemon whose initial backup has failed has thrown, with no cron
\* job made or recorded, no signal handler registered and no backup in
\* progress; the initial backup is the only one it ever started.
C37_InitialFailureSchedulesNothing ==
  \A d \in DOMAIN daemons :
    (daemons[d].valid /\ daemons[d].pc = "threw") =>
      /\ daemons[d].started = 1
      /\ BackupsOf(d) = {}
      /\ d \notin DOMAIN cronJobs
      /\ d \notin jobs
      /\ d \notin daemons[d].jobs
      /\ \A i \in DOMAIN signalHandlers : signalHandlers[i] # d
      /\ keepAliveTimers <= Cardinality({e \in DOMAIN daemons : daemons[e].pc # "threw"})

\* The initial backup of the first daemon failed; a second daemon runs and
\* its job has fired since.
C37_Witness ==
  /\ Cardinality(DOMAIN daemons) = 2
  /\ daemons[1].valid /\ daemons[1].pc = "threw"
  /\ daemons[2].pc = "keepAlive" /\ firings >= 1 /\ daemons[2].started = 2

\* ---------------------------------------------------------------------------
\* hash-cache.ts called directly: hashCacheHasChanged and loadHashCache, one
\* call at a time, with the reads and writes of the files succeeding or not.
\* ---------------------------------------------------------------------------

hashCallReturns(s, result, note) ==
  [s EXCEPT !.hashCall.pc = "returned", !.hashCall.result = result,
            !.hashCall.note = note]

\* hashCacheHasChanged, lines 61-64: up to the await of calculateFileHash.
hashCacheHasChangedCalled(s, path) ==
  [s EXCEPT !.hashCall = [NoHashCall EXCEPT !.op = "hasChanged", !.path = path,
                                            !.pc = "hash"]]

hashCalculated_FailClosed(s, readOk) ==
  LET path == s.hashCall.path IN
  IF ~readOk THEN hashCallReturns(s, FALSE, "readError")
  ELSE IF ~hashChanged(s, path) THEN hashCallReturns(s, FALSE, "match")
  ELSE LET s1 == [s EXCEPT !.cache = MapSet(@, path, MD5(s.fileContent[path]))]
       IN [s1 EXCEPT !.hashCall.pc = "save", !.hashCall.doc = s1.cache,
                     !.hashCall.note =
                        IF path \in DOMAIN s.cache THEN "differs" ELSE "absent"]

\* hashCacheHasChanged, lines 64-88: the stream of calculateFileHash has ended
\* or failed.  A failure is caught and answered true.  A missing or different
\* stored digest is replaced, and saveHashCache serialises the cache and
\* starts the write.
hashCalculated(s, readOk) ==
  LET path == s.hashCall.path IN
  IF ~readOk THEN hashCallReturns(s, TRUE, "readError")
  ELSE IF ~hashChanged(s, path) THEN hashCallReturns(s, FALSE, "match")
  ELSE LET s1 == [s EXCEPT !.cache = MapSet(@, path, MD5(s.fileContent[path]))]
       IN [s1 EXCEPT !.hashCall.pc = "save", !.hashCall.doc = s1.cache,
                     !.hashCall.note =
                        IF path \in DOMAIN s.cache THEN "differs" ELSE "absent"]

\* saveHashCache, lines 41-47, and the return of hashCacheHasChanged: Bun.write
\* has written the document, or has failed, which saveHashCache only logs.
hashCacheSaved(s, writeOk) ==
  IF writeOk
    THEN hashCallReturns([s EXCEPT !.cacheFile = <<s.hashCall.doc>>], TRUE,
                         s.hashCall.note)
    ELSE hashCallReturns(s, TRUE, "writeError")

\* loadHashCache, lines 22-25 and 31: existsSync, then the read is awaited.
loadHashCacheCalled(s) ==
  LET s1 == [s EXCEPT !.hashCall = [NoHashCall EXCEPT !.op = "load", !.pc = "read"]]
  IN IF loadHashCacheStarts(s) THEN s1 ELSE hashCallReturns(s1, FALSE, "missing")

\* loadHashCache, lines 25-35: file.text() has delivered the text or failed.
loadHashCacheRead(s, readOk) ==
  IF ~readOk \/ s.cacheFile = NoFile THEN hashCallReturns(s, FALSE, "readError")
  ELSE IF Len(s.cacheFile) > 1
  THEN hashCallReturns(loadHashCacheDone(s), FALSE, "unparsable")
  ELSE hashCallReturns(loadHashCacheDone(s), TRUE, "loaded")

HInit == InitAs(ModuleInit([p \in SourceFiles |-> 1]))

HashCallIdle == hashCall.pc \in {"idle", "returned"}

CallHashCacheHasChanged ==
  /\ HashCallIdle
  /\ \E path \in SourceFiles : Commit(hashCacheHasChangedCalled(St, path))

HashCalculated ==
  /\ hashCall.pc = "hash"
  /\ \E readOk \in BOOLEAN : Commit(hashCalculated(St, readOk))

HashCacheSaved ==
  /\ hashCall.pc = "save"
  /\ \E writeOk \in BOOLEAN : Commit(hashCacheSaved(St, writeOk))

CallLoadHashCache ==
  /\ HashCallIdle
  /\ Commit(loadHashCacheCalled(St))

HashCacheRead ==
  /\ hashCall.pc = "read"
  /\ \E readOk \in BOOLEAN : Commit(loadHashCacheRead(St, readOk))

\* The text of the cache file is damaged from outside: a truncated write, an
\* edit by hand.
CacheFileDamaged ==
  /\ cacheFile # NoFile
  /\ Len(cacheFile) = 1
  /\ Commit([St EXCEPT !.cacheFile = Append(@, "damaged")])

HNext ==
  \/ CallHashCacheHasChanged \/ HashCalculated \/ HashCacheSaved
  \/ CallLoadHashCache \/ HashCacheRead \/ CacheFileDamaged \/ LocalEdit

SpecHashCache == HInit /\ [][HNext]_vars

\* C21: hashCacheHasChanged answers false exactly when the cache holds, for
\* the path, the MD5 of the file's current content, and then changes neither
\* the cache nor the cache file.  When the path is absent or its digest
\* differs, the current digest is stored, the cache is written to the file
\* (unless the write itself fails) and the answer is true.  When the file
\* cannot be read the answer is true and nothing changes.  There is no other
\* way out of the call.
C21_HasChangedContract ==
  [][LET path == hashCall.path
         current == MD5(fileContent[path])
         hit == path \in DOMAIN cache /\ cache[path] = current
     IN /\ (hashCall.op = "hasChanged" /\ hashCall.pc = "hash" /\ hashCall' # hashCall) =>
             IF hashCall'.note = "readError"
               THEN /\ hashCall'.pc = "returned" /\ hashCall'.result
                    /\ cache' = cache /\ cacheFile' = cacheFile
             ELSE IF hit
               THEN /\ hashCall'.pc = "returned" /\ ~hashCall'.result
                    /\ cache' = cache /\ cacheFile' = cacheFile
             ELSE /\ hashCall'.pc = "save"
                  /\ cache' = MapSet(cache, path, current)
                  /\ hashCall'.doc = cache'
        /\ (hashCall.op = "hasChanged" /\ hashCall.pc = "save" /\ hashCall' # hashCall) =>
             /\ hashCall'.pc = "returned" /\ hashCall'.result
             /\ cache' = cache
             /\ cacheFile' = <<hashCall.doc>> \/ (hashCall'.note = "writeError" /\ cacheFile' = cacheFile)
    ]_vars

C21_Witness ==
  /\ hashCall.op = "hasChanged"
  /\ hashCall.pc = "returned"
  /\ hashCall.result
  /\ hashCall.note = "differs"
  /\ cacheFile = <<cache>>
  /\ cache[hashCall.path] = MD5(fileContent[hashCall.path])
  /\ Cardinality(DOMAIN cache) = 2

\* C22: when loadHashCache has answered false because the text of the cache
\* file cannot be parsed, the cache is empty.
C22_LoadFailureLeavesCacheEmpty ==
  (hashCall.op = "load" /\ hashCall.pc = "returned" /\ hashCall.note = "unparsable")
    => (~hashCall.result /\ cache = EmptyMap)

\* ---------------------------------------------------------------------------
\* scanDirectory called on a source directory: the directories it may be
\* given, two levels deep.
\* ---------------------------------------------------------------------------

MaxEntries == 2

EntryNames == {<<"a">>, <<".", "h">>, <<"s">>}

DirectoryNames == {<<"d">>, <<"e">>, <<".", "g">>}

FileEntries ==
  {[name |-> n, kind |-> k, readable |-> r, content |-> 1, entries |-> <<>>] :
     n \in EntryNames, k \in {"file", "other"}, r \in BOOLEAN}

DistinctNames(entries) ==
  \A i, j \in DOMAIN entries : i # j => entries[i].name # entries[j].name

SubDirectories ==
  {[name |-> n, kind |-> "dir", readable |-> r, content |-> 1, entries |-> es] :
     n \in DirectoryNames, r \in BOOLEAN, es \in {x \in BoundedSeq(FileEntries, MaxEntries - 1) : DistinctNames(x)}}

SourceDirectories ==
  {[name |-> <<>>, kind |-> "dir", readable |-> r, content |-> 1, entries |-> es] :
     r \in BOOLEAN,
     es \in {x \in BoundedSeq(FileEntries \cup SubDirectories, MaxEntries) :
               DistinctNames(x)}}

BaseDirs == {TmpDir, <<"/", "u">>}

ScanInit ==
  \E directory \in SourceDirectories, baseDir \in BaseDirs :
    InitAs([ModuleInit([p \in SourceFiles |-> 1]) EXCEPT
              !.scanCall = [NoScanCall EXCEPT !.directory = directory,
                                              !.baseDir = baseDir]])

CallScanDirectory ==
  /\ scanCall.pc = "idle"
  /\ Commit([St EXCEPT
       !.scanCall.pc = "returned",
       !.scanCall.files = scanDirectory(scanCall.directory, scanCall.baseDir,
                                        scanCall.baseDir)])

ScanNext == CallScanDirectory

SpecScan == ScanInit /\ [][ScanNext]_vars

\* The entries of a directory that the scan does not skip.
Visible(directory, dir) ==
  {i \in DOMAIN directory.entries :
     /\ Head(directory.entries[i].name) # "."
     /\ joinSlash(dir, directory.entries[i].name) # StatePath}

\* The relative paths of the regular files that are not excluded.
ExpectedFiles ==
  LET root == scanCall.directory
      top == {root.entries[i] : i \in Visible(root, scanCall.baseDir)}
  IN {e.name : e \in {x \in top : x.kind = "file"}}
     \cup UNION {{joinSlash(d.name, d.entries[i].name) :
                    i \in {j \in Visible(d, joinSlash(scanCall.baseDir, d.name)) :
                             d.entries[j].kind = "file"}} :
                 d \in {x \in top : x.kind = "dir"}}

\* readdirSync succeeds for the source directory and every directory below
\* it that is not skipped.
NoDirectoryReadFails ==
  LET root == scanCall.directory
  IN /\ root.readable
     /\ \A i \in Visible(root, scanCall.baseDir) :
          root.entries[i].kind = "dir" => root.entries[i].readable

\* C23: after a scan in which no directory read fails, allFiles holds every
\* regular file that is not excluded exactly once, and nothing else.
C23_ScanListsEveryFileOnce ==
  (scanCall.pc = "returned" /\ NoDirectoryReadFails) =>
    /\ {scanCall.files[i].relativePath : i \in DOMAIN scanCall.files} = ExpectedFiles
    /\ \A i, j \in DOMAIN scanCall.files :
         scanCall.files[i].relativePath = scanCall.files[j].relativePath => i = j

\* The directories of the first level that the scan enters.
VisibleDirectories ==
  LET root == scanCall.directory
  IN {root.entries[i] : i \in {j \in Visible(root, scanCall.baseDir) :
                                  root.entries[j].kind = "dir"}}

\* The regular files that are not excluded and not below a directory that
\* cannot be read.
ReachableFiles ==
  LET root == scanCall.directory
  IN {root.entries[i].name :
        i \in {j \in Visible(root, scanCall.baseDir) : root.entries[j].kind = "file"}}
     \cup UNION {{joinSlash(d.name, d.entries[i].name) :
                    i \in {j \in Visible(d, joinSlash(scanCall.baseDir, d.name)) :
                             d.entries[j].kind = "file"}} :
                 d \in {x \in VisibleDirectories : x.readable}}

\* statSync and the read of the checksum succeed for every file of the walk.
NoFileReadFails ==
  LET root == scanCall.directory
  IN /\ \A i \in Visible(root, scanCall.baseDir) :
          root.entries[i].kind = "file" => root.entries[i].readable
     /\ \A d \in VisibleDirectories :
          d.readable =>
            \A i \in Visible(d, joinSlash(scanCall.baseDir, d.name)) :
              d.entries[i].kind = "file" => d.entries[i].readable

ReadFailsIn(directory, dir) ==
  \/ ~directory.readable
  \/ \E i \in Visible(directory, dir) :
       directory.entries[i].kind = "file" /\ ~directory.entries[i].readable

\* The files that the scan of a directory of the first level finds.
FilesBelow(d) ==
  {joinSlash(d.name, d.entries[i].name) :
     i \in {j \in Visible(d, joinSlash(scanCall.baseDir, d.name)) :
              d.entries[j].kind = "file"}}

\* C38: a directory in which one read fails gives no file at all, neither
\* its other files nor those collected from its subdirectories, and the
\* files outside it are returned: the source directory gives the empty list,
\* a subdirectory gives nothing and leaves the rest of the walk as it is.
C38_FailedReadDropsDirectory ==
  scanCall.pc = "returned" =>
    LET root == scanCall.directory
        paths == {scanCall.files[i].relativePath : i \in DOMAIN scanCall.files}
    IN IF ReadFailsIn(root, scanCall.baseDir)
       THEN scanCall.files = <<>>
       ELSE paths =
              {root.entries[i].name :
                 i \in {j \in Visible(root, scanCall.baseDir) :
                          root.entries[j].kind = "file"}}
              \cup UNION {FilesBelow(d) :
                            d \in {x \in VisibleDirectories :
                                     ~ReadFailsIn(x, joinSlash(scanCall.baseDir, x.name))}}

\* A source directory with a subdirectory that has a file, followed by a
\* file that cannot be read: the files of the subdirectory are dropped.
C38_Witness ==
  /\ scanCall.pc = "returned"
  /\ scanCall.directory.readable
  /\ scanCall.files = <<>>
  /\ Len(scanCall.directory.entries) = 2
  /\ LET d == scanCall.directory.entries[1]
         f == scanCall.directory.entries[2]
     IN /\ d.kind = "dir" /\ Head(d.name) # "."
        /\ ~ReadFailsIn(d, joinSlash(scanCall.baseDir, d.name))
        /\ FilesBelow(d) # {}
        /\ f.kind = "file" /\ Head(f.name) # "." /\ ~f.readable

\* ---------------------------------------------------------------------------
\* The operations of internxt-service.ts called on what a CLI process gives.
\* ---------------------------------------------------------------------------

MaxWords == 2

Words == {"done", "Error", "failed", "already exists"}

CliOutcomes ==
  {[stdout |-> out, stderr |-> err, code |-> code] :
     out \in BoundedSeq(Words, MaxWords), err \in BoundedSeq(Words, MaxWords),
     code \in {0, 1}}

CliInit ==
  \E cli \in CliOutcomes :
    InitAs([ModuleInit([p \in SourceFiles |-> 1]) EXCEPT
              !.cliCall = [NoCliCall EXCEPT !.cli = cli]])

cliReturns(s, op, success) ==
  [s EXCEPT !.cliCall.op = op, !.cliCall.success = success]

CallUploadFile ==
  /\ cliCall.op = "none"
  /\ Commit(cliReturns(St, "upload", execTransferResult(cliCall.cli)))

CallUploadFileWithProgress ==
  /\ cliCall.op = "none"
  /\ Commit(cliReturns(St, "uploadWithProgress", spawnTransferResult(cliCall.cli)))

CallDownloadFile ==
  /\ cliCall.op = "none"
  /\ Commit(cliReturns(St, "download", execTransferResult(cliCall.cli)))

CallDownloadFileWithProgress ==
  /\ cliCall.op = "none"
  /\ Commit(cliReturns(St, "downloadWithProgress", spawnTransferResult(cliCall.cli)))

CallCreateFolder ==
  /\ cliCall.op = "none"
  /\ Commit(cliReturns(St, "createFolder", createFolderResult(cliCall.cli)))

CliNext ==
  \/ CallUploadFile \/ CallUploadFileWithProgress \/ CallDownloadFile
  \/ CallDownloadFileWithProgress \/ CallCreateFolder

SpecCli == CliInit /\ [][CliNext]_vars

CliOutput == toLowerCase(cliCall.cli.stdout \o cliCall.cli.stderr)

\* C26: an upload, a streamed upload or a download whose CLI output holds
\* "error" or "failed", in any case of letters, has failed, whatever the exit
\* code; a create-folder whose output holds "already exists" has succeeded.
C26_ErrorOutputFails ==
  /\ (cliCall.op \in {"upload", "uploadWithProgress", "download", "downloadWithProgress"}
        /\ (includes(CliOutput, "error") \/ includes(CliOutput, "failed")))
       => ~cliCall.success
  /\ (cliCall.op = "createFolder" /\ includes(CliOutput, "already exists"))
       => cliCall.success

(***************************************************************************)
(* A backup run on a source tree that is edited while the run is in        *)
(* progress: a file that scanDirectory has hashed is given another content *)
(* before handleFileUpload is called for it.                               *)
(***************************************************************************)
\* The file has been hashed by the scan of the run in progress and no
\* handleFileUpload has been called for it yet.
ScannedNotStarted(path) ==
  /\ runPc # "idle"
  /\ path \in PathsOf(allFiles)
  /\ path \notin uploadedFiles
  /\ \A uploadId \in DOMAIN handlers : handlers[uploadId].file.relativePath # path

EditBeforeUpload ==
  /\ edits < MaxEdits
  /\ \E path \in DOMAIN fileContent, content \in Contents :
       /\ ScannedNotStarted(path)
       /\ content # fileContent[path]
       /\ Commit([St EXCEPT !.fileContent[path] = content, !.edits = @ + 1])

SENext == SNext \/ EditBeforeUpload

SpecSyncEdit == BInit /\ [][SENext]_vars

\* C30: when the upload of a file whose content is no longer the one that
\* the scan hashed succeeds, the drive holds the new content, and the digest
\* recorded for the file in the scanner state and in the hash cache is the
\* MD5 of the new content.
C30_NewDigestRecorded ==
  [][\A uploadId \in DOMAIN handlers :
       LET fileInfo == handlers[uploadId].file
           path == fileInfo.relativePath
       IN (/\ handlers[uploadId].pc = "upload"
           /\ fileInfo.checksum # MD5(fileContent[path])
           /\ uploadId \in DOMAIN handlers'
           /\ handlers'[uploadId].pc = "resolved")
          => /\ remote'[path] = fileContent[path]
             /\ path \in DOMAIN uploadState'.files
             /\ uploadState'.files[path] = MD5(fileContent[path])
             /\ path \in DOMAIN cache'
             /\ cache'[path] = MD5(fileContent[path])]_vars

(***************************************************************************)
(* Backup runs with the progress display: the timer that                   *)
(* startProgressUpdates sets calls displayProgress every 250 ms.           *)
(***************************************************************************)
ProgressTick ==
  /\ progressDisplay.updateInterval
  /\ Commit(displayProgress(St))

SPNext == SNext \/ ProgressTick

SpecSyncProgress == BInit /\ [][SPNext]_vars

\* C32: when a backup run that has called initUploader, and with it
\* initProgressTracker, returns, the timer of the progress display is
\* cleared and the console methods are the original ones.
C32_ReporterStoppedOnEveryExit ==
  (runEntry = "syncFiles" /\ runPc = "idle" /\ runExit \notin {"none", "cliFailure"})
    => (~progressDisplay.updateInterval /\ ~progressDisplay.consoleOverridden)

(***************************************************************************)
(* Backup runs to a target that has more than one path segment.            *)
(***************************************************************************)
DeepTargets == {<<"/", "B", "/", "X">>, <<"B", "/", "X", "/">>}

SyncDeepCall ==
  /\ runPc = "idle"
  /\ runs < MaxSyncCalls
  /\ \E force \in BOOLEAN, cores \in 1..MaxConcurrencyBound, target \in DeepTargets :
       Commit(syncFiles(runBegins(St, "syncFiles", force),
                        [force |-> force, cores |-> cores, target |-> target,
                         resume |-> FALSE]))

STNext ==
  \/ SyncDeepCall \/ SyncCliChecked \/ ScanStateLoaded \/ ScanChecksummed
  \/ DetermineLoaded \/ DetermineChecked
  \/ UploadCliChecked \/ UploadTargetCreated \/ UploadDirPreCreated \/ UploadSaved
  \/ HandlerTargetCreated \/ HandlerDirCreated \/ HandlerUploadFolderCreated
  \/ HandlerUploaded \/ HandlerThen
  \/ CacheLoaded \/ IntervalTick \/ LeakedIntervalTick

SpecSyncTarget == BInit /\ [][STNext]_vars

\* replace(/^\/+|\/+$/g, "") of the Uploader class: the slashes at the two
\* ends are removed.
RECURSIVE stripOuterSlashes(_)
stripOuterSlashes(str) ==
  IF str # <<>> /\ Head(str) = "/" THEN stripOuterSlashes(Tail(str))
  ELSE IF str # <<>> /\ str[Len(str)] = "/"
  THEN stripOuterSlashes(SubSeq(str, 1, Len(str) - 1))
  ELSE str

\* The target of the run in progress with its outer slashes removed.
NormalizedTarget == stripOuterSlashes(trim(runOptions.target))

\* A relative path of the source below the target.
BelowTarget(relativePath) ==
  IF NormalizedTarget = <<>> THEN relativePath
  ELSE joinSlash(NormalizedTarget, relativePath)

\* C33: in a backup run the target keeps its interior separators: every
\* create-folder that succeeds is for the target or for a directory of the
\* source below the target, and every file in upload goes to the target
\* joined with its relative path.
C33_TargetKeepsSegments ==
  (runEntry = "syncFiles" /\ syncCliStatus = "ready") =>
    /\ targetDir = NormalizedTarget
    /\ foldersCreated \subseteq {NormalizedTarget, BelowTarget(<<"d">>)}
    /\ \A uploadId \in DOMAIN handlers :
         handlers[uploadId].pc = "upload" =>
           getPathInfo(St, handlers[uploadId].file).targetPath
             = BelowTarget(handlers[uploadId].file.relativePath)

(***************************************************************************)
(* restore-manager.ts: initRestoreManager and restoreFiles, as index.ts    *)
(* calls them, one after the other, on a remote listing whose files have   *)
(* distinct remote paths.                                                  *)
(***************************************************************************)
MaxListing == 2
MaxRestoreRuns == 2

RemoteNames == {<<"1">>, <<"2">>, <<"3">>}

\* The RestoreFileInfo that listRemoteFiles makes of a remote file.
RestoreFileInfoOf(name) ==
  [remotePath |-> joinSlash(<<"/", "r">>, name),
   localPath |-> joinSlash(<<"/", "l">>, name),
   size |-> 100, name |-> name]

\* What listRemoteFiles can return: the files of the remote path, no remote
\* path twice.
Listings ==
  {files \in BoundedSeq({RestoreFileInfoOf(n) : n \in RemoteNames}, MaxListing) :
     \A i, j \in DOMAIN files : files[i].remotePath = files[j].remotePath => i = j}

\* initRestoreManager(remotePath, localPath, options), lines 328-350.
initRestoreManager(s, options) ==
  [s EXCEPT !.restore = [@ EXCEPT !.force = options.force, !.cores = options.cores,
                                  !.downloadedFiles = {}, !.skippedFiles = {}]]

\* restoreFiles(), lines 459-462: the call, up to the await of
\* checkInternxtCLI.
restoreFiles(s) ==
  [s EXCEPT !.restore = [@ EXCEPT !.pc = "checkCLI", !.runs = @ + 1,
                                  !.files = <<>>, !.filterIndex = 0,
                                  !.filesToDownload = <<>>, !.failedFiles = <<>>,
                                  !.exit = "none", !.result = NoRestoreResult]]

\* restoreFiles, lines 464-482: checkInternxtCLI has answered; a CLI that is
\* not ready makes restoreFiles throw.
restoreFilesChecked(s, cliStatus) ==
  IF cliStatus # "ready"
  THEN restoreReturns(s, "threw", NoRestoreResult)
  ELSE [s EXCEPT !.restore.pc = "list"]

\* downloadFiles(filesToDownload, totalFiles), lines 402-441: the progress
\* display and the queue are set up and the queue is started with the
\* resolve function of the promise downloadFiles awaits.
downloadFiles(s) ==
  LET s1 == startProgressUpdates(initProgressTracker(s, Len(s.restore.filesToDownload)))
      s2 == initFileQueue([s1 EXCEPT !.restore.failedFiles = <<>>],
                          s.restore.cores, "downloadHandler")
      s3 == setFileQueue(s2, s.restore.filesToDownload)
  IN startFileQueue([s3 EXCEPT !.restore.pc = "awaitQueue"], "resolveRestore")

\* restoreFiles, lines 492-500: filterFilesToDownload has returned.
restoreFilesFiltered(s) ==
  IF Len(s.restore.filesToDownload) = 0
  THEN restoreReturns(s, "upToDate",
         [success |-> TRUE, totalFiles |-> Len(s.restore.files), downloaded |-> 0,
          skipped |-> Len(s.restore.files), failed |-> 0])
  ELSE downloadFiles(s)

\* filterFilesToDownload, lines 384-400: with force every file is kept;
\* otherwise the loop awaits isFileUpToDate for the file.
filterFilesToDownload(s) ==
  IF s.restore.force
  THEN restoreFilesFiltered([s EXCEPT !.restore.filesToDownload = s.restore.files])
  ELSE [s EXCEPT !.restore.pc = "filter", !.restore.filterIndex = 1]

\* filterFilesToDownload, lines 391-397: isFileUpToDate has answered.
filterChecked(s, isUpToDate) ==
  LET file == s.restore.files[s.restore.filterIndex]
      s1 == IF isUpToDate
            THEN [s EXCEPT !.restore.skippedFiles = @ \cup {file.remotePath}]
            ELSE [s EXCEPT !.restore.filesToDownload = Append(@, file)]
      s2 == [s1 EXCEPT !.restore.filterIndex = @ + 1]
  IN IF s2.restore.filterIndex > Len(s2.restore.files)
     THEN restoreFilesFiltered(s2)
     ELSE s2

\* restoreFiles, lines 484-490: listRemoteFiles has returned.
restoreFilesListed(s, files) ==
  LET s1 == [s EXCEPT !.restore.files = files]
  IN IF Len(files) = 0
     THEN restoreReturns(s1, "noFiles",
            [success |-> TRUE, totalFiles |-> 0, downloaded |-> 0, skipped |-> 0,
             failed |-> 0])
     ELSE filterFilesToDownload(s1)

RestoreInit == InitAs(ModuleInit(EmptyMap))

CallRestoreFiles ==
  /\ restore.pc = "idle"
  /\ restore.runs < MaxRestoreRuns
  /\ \E force \in BOOLEAN, cores \in 1..MaxConcurrencyBound :
       Commit(restoreFiles(initRestoreManager(St, [force |-> force, cores |-> cores])))

RestoreCliChecked ==
  /\ restore.pc = "checkCLI"
  /\ \E cliStatus \in {"ready", "notInstalled", "notAuthenticated"} :
       Commit(restoreFilesChecked(St, cliStatus))

RestoreListed ==
  /\ restore.pc = "list"
  /\ \E files \in Listings : Commit(restoreFilesListed(St, files))

RestoreFilterChecked ==
  /\ restore.pc = "filter"
  /\ \E isUpToDate \in BOOLEAN : Commit(filterChecked(St, isUpToDate))

\* downloadFile answers to a download handler.
DownloadAnswered ==
  \E uploadId \in DOMAIN handlers, success \in BOOLEAN :
    /\ handlers[uploadId].pc = "download"
    /\ Commit(downloadAnswered(St, uploadId, success))

RestoreNext ==
  \/ CallRestoreFiles \/ RestoreCliChecked \/ RestoreListed \/ RestoreFilterChecked
  \/ DownloadAnswered \/ HandlerThen \/ IntervalTick \/ LeakedIntervalTick
  \/ ProgressTick

SpecRestore == RestoreInit /\ [][RestoreNext]_vars

\* The remote paths of a list of RestoreFileInfo.
RemotePathsOf(files) == {files[i].remotePath : i \in DOMAIN files}

\* C39: the result that a restore run returns has downloaded + skipped +
\* failed = totalFiles, totalFiles being the number of files listed; after
\* a run that downloaded, every listed file is in exactly one of the
\* downloaded set, the skipped set and the failed list, whatever the order
\* in which the downloads answer.
C39_RestoreCountsAddUp ==
  (restore.pc = "idle" /\ restore.exit \in {"noFiles", "upToDate", "downloaded"}) =>
    /\ restore.result.totalFiles = Len(restore.files)
    /\ restore.result.downloaded + restore.result.skipped + restore.result.failed
         = restore.result.totalFiles
    /\ restore.exit = "downloaded" =>
         /\ restore.result.downloaded = Cardinality(restore.downloadedFiles)
         /\ restore.result.skipped = Cardinality(restore.skippedFiles)
         /\ restore.result.failed = Cardinality(RemotePathsOf(restore.failedFiles))
         /\ restore.downloadedFiles \cup restore.skippedFiles
              \cup RemotePathsOf(restore.failedFiles) = RemotePathsOf(restore.files)
         /\ restore.downloadedFiles \cap restore.skippedFiles = {}
         /\ restore.downloadedFiles \cap RemotePathsOf(restore.failedFiles) = {}
         /\ restore.skippedFiles \cap RemotePathsOf(restore.failedFiles) = {}

\* The second run of a process, over two files, two downloads at a time:
\* one download succeeded and the other failed.
C39_Witness ==
  /\ restore.pc = "idle" /\ restore.exit = "downloaded" /\ restore.runs = 2
  /\ maxConcurrency = 2
  /\ restore.result.totalFiles = 2
  /\ restore.result.downloaded = 1 /\ restore.result.failed = 1

(***************************************************************************)
(* Properties of the transfer queue.                                       *)
(***************************************************************************)

\* No task is pending, no handler invocation is in flight.
QueueDrained == pendingFiles = <<>> /\ activeUploads = {} /\ DOMAIN handlers = {}

\* The run of one startFileQueue(onComplete) is over: the queue is drained
\* and the completion timer is no longer registered.
QueueQuiescent ==
  started /\ completionCallback # "null" /\ QueueDrained /\ ~checkInterval

\* C1: after one Start(onComplete) whose handlers all settle, onComplete is
\* invoked exactly once over the whole execution: never a second time, and
\* once the execution is over not zero times.
C1_OnCompleteExactlyOnce ==
  /\ completeCalls <= 1
  /\ QueueQuiescent => completeCalls = 1

\* C2: every invocation of onComplete happens with nothing pending, no
\* handler invocation in flight, and every task of the batch dispatched and
\* settled.
C2_OnCompleteOnlyWhenDrained ==
  [][completeCalls' # completeCalls =>
       /\ pendingFiles' = <<>>
       /\ activeUploads' = {}
       /\ DOMAIN handlers' = {}
       /\ dispatchLog' = batch
       /\ settledCount' = Len(batch)]_vars

\* onComplete has fired for a batch of at least two tasks that ran two at a time.
C2_Witness ==
  completeCalls >= 1 /\ Len(batch) >= 2 /\ maxConcurrency = 2 /\ settledCount = Len(batch)

\* C3: in every reachable state the active set, and the set of handler
\* invocations in flight, hold at most maxConcurrency members.
C3_ActiveAtMostMaxConcurrency ==
  /\ Cardinality(activeUploads) <= maxConcurrency
  /\ Cardinality(DOMAIN handlers) <= maxConcurrency

\* A task waits because maxConcurrency handlers are in flight.
C3_Witness ==
  pendingFiles # <<>> /\ maxConcurrency = 2 /\ Cardinality(DOMAIN handlers) = 2

\* C4: with maxConcurrency >= 1 and handlers that settle, after Start every
\* task of the batch is dispatched and the queue drains, also when handlers
\* reject or return a failure result.
C4_QueueDrains ==
  (started /\ maxConcurrency >= 1) ~> (QueueDrained /\ dispatchLog = batch)

\* The queue has drained a batch of three tasks of which one was rejected.
C4_Witness ==
  QueueDrained /\ started /\ Len(batch) = 3 /\ dispatchLog = batch /\ errorLog >= 1

\* C24: the tasks are handed to the handler in the order of the list given
\* to setFileQueue: what has been dispatched is always the beginning of
\* that list, whatever maxConcurrency is and in whatever order the handlers
\* settle.
C24_DispatchInEnqueueOrder ==
  /\ Len(dispatchLog) <= Len(batch)
  /\ dispatchLog = SubSeq(batch, 1, Len(dispatchLog))

\* A batch of three tasks, the first two different, has been dispatched
\* one at a time.
C24_Witness ==
  /\ Len(batch) = 3 /\ batch[1] # batch[2] /\ dispatchLog = batch
  /\ maxConcurrency = 1 /\ settledCount >= 2

\* C25: cancelFileQueue empties the pending list and leaves the active set
\* and the handler invocations in flight as they are; from then on, until
\* the next setFileQueue, nothing is passed to the handler; and a handler
\* invocation leaves only through its own then/catch callback.
C25_CancelKeepsInFlight ==
  [][/\ cancelInfo'.calls = cancelInfo.calls + 1 =>
          /\ pendingFiles' = <<>>
          /\ activeUploads' = activeUploads
          /\ handlers' = handlers
     /\ (cancelInfo.live /\ cancelInfo'.live) =>
          /\ dispatchLog' = dispatchLog
          /\ DOMAIN handlers' \subseteq DOMAIN handlers
     /\ \A uploadId \in DOMAIN handlers \ DOMAIN handlers' :
          /\ handlers[uploadId].pc \in Settled
          /\ settledCount' = settledCount + 1
          /\ uploadId \notin activeUploads'
    ]_vars

\* A cancel was made with one task in flight and one pending; the one in
\* flight has completed since, the other was never dispatched.
C25_Witness ==
  /\ cancelInfo.live /\ Len(batch) = 2 /\ Len(dispatchLog) = 1
  /\ settledCount = 1 /\ DOMAIN handlers = {} /\ pendingFiles = <<>>

\* C27: once startFileQueue has been called, the number of handler
\* invocations in flight is the smaller of maxConcurrency and the number of
\* tasks of the batch whose then/catch callback has not run yet.
C27_WorkConserving ==
  started =>
    Cardinality(activeUploads) = Min(maxConcurrency, Len(batch) - settledCount)

C27_Witness ==
  /\ started /\ maxConcurrency = 2 /\ Len(batch) = 3 /\ settledCount = 1
  /\ Cardinality(activeUploads) = 2 /\ pendingFiles = <<>>

\* C34: from setFileQueue on, with no other setFileQueue and no cancel, the
\* tasks passed to the handler and the tasks still pending are together the
\* batch, each task once and in its place; so when the queue is idle, with
\* nothing pending and nothing in flight, every task of the batch has been
\* passed to the handler exactly once, also when handlers reject and when
\* the completion callback is called from the then/catch callback of a
\* handler.
C34_EveryTaskDispatchedOnce ==
  /\ dispatchLog \o pendingFiles = batch
  /\ QueueDrained => dispatchLog = batch

\* A batch of three tasks, two of them the same file, has gone through the
\* handler two at a time; one invocation was rejected, and the completion
\* callback has been called.
C34_Witness ==
  /\ started /\ Len(batch) = 3 /\ batch[1] = batch[3] /\ batch[1] # batch[2]
  /\ maxConcurrency = 2 /\ dispatchLog = batch /\ settledCount = 3
  /\ errorLog = 1 /\ completeCalls = 1 /\ DOMAIN handlers = {}

\* C35: cancelFileQueue clears the timer of the completion check; after it,
\* as long as startFileQueue is not called again, the completion callback
\* is called only in the step in which a handler invocation in flight
\* leaves, with nothing pending: with no handler in flight at the cancel it
\* is never called.
C35_CancelStopsCompletionCheck ==
  [][/\ cancelInfo'.calls = cancelInfo.calls + 1 => ~checkInterval'
     /\ (/\ cancelInfo.live /\ ~cancelInfo.restarted
         /\ cancelInfo'.calls = cancelInfo.calls
         /\ completeCalls' # completeCalls)
        => /\ DOMAIN handlers \ DOMAIN handlers' # {}
           /\ pendingFiles' = <<>>
           /\ activeUploads' = {}
    ]_vars
====
